---------------------------- MODULE Spec2Model ----------------------------
(***************************************************************************)
(* Amortization engine of CredX (src/app/lib/calculator.ts).               *)
(*                                                                         *)
(* Number representation.  The engine computes in decimal.js Decimals      *)
(* (default precision, ROUND_HALF_UP) and converts to JavaScript numbers   *)
(* with toNumber() at its boundary and, in places, in the middle of a      *)
(* computation.  Both are finite-precision and toNumber() is the coarser   *)
(* of the two.  Here every Decimal and every number is an integer count    *)
(* of 1/DScale units; a Decimal operation rounds half-up to that grid and  *)
(* toNumber() rounds to NumSig significant digits.  Month counts           *)
(* (tenure, monthsPaid) are plain integers.  Money inputs are whole        *)
(* currency units.                                                         *)
(*                                                                         *)
(* Layout.  A local constant of the source that is used more than once is  *)
(* a parameter of the operator that continues the computation, so a        *)
(* function of the source is a short chain of operators named after it.    *)
(***************************************************************************)
EXTENDS Integers, Sequences, FiniteSets, TLC

\* Units per 1.0 of a Decimal (scaled-down stand-in for 20 significant digits).
DScale == 1000000

\* Significant decimal digits kept by toNumber() (stand-in for an IEEE double).
NumSig == 6

\* Extra digits the logarithm carries internally before its final rounding.
LnGuard == 100

Abs(x) == IF x < 0 THEN -x ELSE x

Sgn(x) == IF x < 0 THEN -1 ELSE 1

Max(a, b) == IF a >= b THEN a ELSE b

\* Largest magnitude an intermediate of the arithmetic below may take.
IntLimit == 2^30 - 1

\* One more base-c digit d of the multiplier: quotient and remainder so far
\* are h[1], h[2].
MulQRDigit(h, r, b, c, d) ==
  << c * h[1] + (c * h[2] + d * r) \div b, (c * h[2] + d * r) % b >>

RECURSIVE MulQRBase(_, _, _, _)
MulQRBase(r, b, m, c) ==
  IF m = 0 THEN <<0, 0>>
  ELSE MulQRDigit(MulQRBase(r, b, m \div c, c), r, b, c, m % c)

\* <<floor(r*m / b), (r*m) mod b>> for 0 <= r < b, m >= 0, taking the digits
\* of m in a base small enough that no intermediate exceeds 2*IntLimit.
MulQR(r, b, m) == MulQRBase(r, b, m, Max(2, IntLimit \div b))

\* Quotient h[1] rounded up when the remainder h[2] is at least half of b.
RoundQR(h, b) == h[1] + (IF 2 * h[2] >= b THEN 1 ELSE 0)

\* round-half-up(a * m / b) for a >= 0, m >= 0, b > 0.
MulDivRound(a, m, b) == (a \div b) * m + RoundQR(MulQR(a % b, b, m), b)

\* floor(a * m / b) for a >= 0, m >= 0, b > 0.
MulDivFloor(a, m, b) == (a \div b) * m + MulQR(a % b, b, m)[1]

\* Decimal.times: product rounded half-up (away from zero) to the grid.
DMul(a, b) == Sgn(a) * Sgn(b) * MulDivRound(Abs(a), Abs(b), DScale)

\* Decimal.div for a non-zero divisor: quotient rounded half-up to the grid.
DDiv(a, b) == Sgn(a) * Sgn(b) * MulDivRound(Abs(a), DScale, Abs(b))

\* new Decimal(n) for a whole number n.
Dec(n) == n * DScale

\* Decimal.pow with a whole exponent; a negative one gives the reciprocal.
RECURSIVE DPow(_, _)
DPow(x, n) ==
  IF n = 0 THEN Dec(1)
  ELSE IF n < 0 THEN DDiv(Dec(1), DPow(x, -n))
  ELSE DMul(DPow(x, n - 1), x)

\* Sum of y^k / k over odd k, in units of 1/(DScale*LnGuard); pw is y^k.
RECURSIVE LnSeries(_, _, _, _)
LnSeries(pw, y2, k, acc) ==
  IF pw = 0 THEN acc
  ELSE LnSeries(MulDivFloor(pw, y2, DScale * LnGuard), y2, k + 2, acc + pw \div k)

\* 2 * atanh(y) for y in units of 1/(DScale*LnGuard), rounded half-up to the grid.
LnOfY(y) ==
  (4 * LnSeries(y, MulDivFloor(y, y, DScale * LnGuard), 1, 0) + LnGuard) \div (2 * LnGuard)

\* Decimal.ln for x > 0: 2 * atanh((x-1)/(x+1)), negative below 1.
DLn(x) ==
  Sgn(x - DScale) * LnOfY(MulDivFloor(Abs(x - DScale), DScale * LnGuard, x + DScale))

RECURSIVE Pow10(_)
Pow10(n) == IF n = 0 THEN 1 ELSE 10 * Pow10(n - 1)

RECURSIVE NumDigits(_)
NumDigits(a) == IF a < 10 THEN 1 ELSE 1 + NumDigits(a \div 10)

\* The unit of the last digit toNumber() keeps for a number of magnitude x.
Ulp(x) == IF NumDigits(Abs(x)) > NumSig THEN Pow10(NumDigits(Abs(x)) - NumSig) ELSE 1

\* a >= 0 rounded to a multiple of u, ties to the even multiple.
RoundToUnit(a, u) ==
  IF 2 * (a % u) > u \/ (2 * (a % u) = u /\ (a \div u) % 2 = 1)
  THEN u * ((a \div u) + 1)
  ELSE u * (a \div u)

\* Decimal.toNumber: the nearest value with NumSig significant digits
\* (ties to even, as IEEE 754 round-to-nearest does).
ToNumber(d) == Sgn(d) * RoundToUnit(Abs(d), Ulp(d))

\* Math.ceil of a number.
Ceil(x) == IF x % DScale = 0 THEN x \div DScale ELSE (x \div DScale) + 1

\* a - b on JavaScript numbers.
NumSub(a, b) == ToNumber(a - b)

Undefined == "undefined"

(***************************************************************************)
(* Leaf formulas.  Money and rates are numbers (1/DScale units); tenure    *)
(* and monthsPaid are whole months.  The engine is only applied to rates   *)
(* above zero and tenures of at least one month, where no divisor is zero. *)
(***************************************************************************)

\* (annualRate / 100) / 12
calculateMonthlyRate(annualRate) == DDiv(DDiv(annualRate, Dec(100)), Dec(12))

\* numerator.div(denominator) of the EMI, from P, i and (1+i)^N.
emiQuotient(P, i, onePlusIToN) ==
  DDiv(DMul(DMul(P, i), onePlusIToN), onePlusIToN - Dec(1))

\* P * i * (1+i)^N / [(1+i)^N - 1] for a monthly rate i.
emiAtMonthlyRate(P, i, N) == emiQuotient(P, i, DPow(Dec(1) + i, N))

\* calculateEMI; options B and C of Scenario 3 repeat the formula inline.
calculateEMI(principal, annualRate, tenureMonths) ==
  emiAtMonthlyRate(principal, calculateMonthlyRate(annualRate), tenureMonths)

\* Mutant of outstandingQuotient: the principal already repaid, with
\* (1+i)^k - 1 as the numerator's factor.
outstandingQuotient_repaid(P, onePlusIToN, onePlusIToK) ==
  DDiv(DMul(P, onePlusIToK - Dec(1)), onePlusIToN - Dec(1))

\* numerator.div(denominator) of the outstanding principal.
outstandingQuotient(P, onePlusIToN, onePlusIToK) ==
  DDiv(DMul(P, onePlusIToN - onePlusIToK), onePlusIToN - Dec(1))

\* P * [(1+i)^N - (1+i)^k] / [(1+i)^N - 1] for 1+i.
outstandingAtFactor(P, onePlusI, N, k) ==
  outstandingQuotient(P, DPow(onePlusI, N), DPow(onePlusI, k))

calculateOutstandingPrincipal(originalPrincipal, annualRate, originalTenure, monthsPaid) ==
  outstandingAtFactor(originalPrincipal, Dec(1) + calculateMonthlyRate(annualRate),
                      originalTenure, monthsPaid)

\* ln(E / (E - B*i)) / ln(1+i) for a balance B and payment E whose
\* denominator E - B*i is positive.
tenureFormula(B, i, E) ==
  DDiv(DLn(DDiv(E, E - DMul(B, i))), DLn(Dec(1) + i))

\* Mutant of ceilMonths: rounded down.
ceilMonths_floor(d) == Max(0, ToNumber(d) \div DScale)

\* Math.max(0, Math.ceil(d.toNumber()))
ceilMonths(d) == Max(0, Ceil(ToNumber(d)))

\* Mutant of newTenureOfBalance: one month when the payment does not cover
\* the interest.
newTenureOfBalance_oneMonth(P_after, i, E) ==
  IF P_after <= 0 THEN 0
  ELSE IF E - DMul(P_after, i) <= 0 THEN Dec(1)
  ELSE tenureFormula(P_after, i, E)

\* calculateNewTenure from P_after and the monthly rate.
newTenureOfBalance(P_after, i, E) ==
  IF P_after <= 0 THEN 0
  ELSE IF E - DMul(P_after, i) <= 0 THEN 0
  ELSE tenureFormula(P_after, i, E)

calculateNewTenure(outstandingPrincipal, annualRate, emi, prepaymentAmount) ==
  newTenureOfBalance(outstandingPrincipal - prepaymentAmount,
                     calculateMonthlyRate(annualRate), emi)

\* Mutant of calculateInterestSaved: the prepayment not counted as a cost.
calculateInterestSaved_noPrepayment(emi, originalRemainingTenure, newTenure, prepaymentAmount) ==
  DMul(emi, Dec(originalRemainingTenure)) - DMul(emi, Dec(newTenure))

calculateInterestSaved(emi, originalRemainingTenure, newTenure, prepaymentAmount) ==
  DMul(emi, Dec(originalRemainingTenure)) - (DMul(emi, Dec(newTenure)) + prepaymentAmount)

(***************************************************************************)
(* Scenario 1A: lump-sum prepayment, EMI kept, tenure reduced.             *)
(***************************************************************************)

\* The result record, once the new tenure is known.
prepaymentScenarioResult(emi, outstandingPrincipal, remainingTenure, newTenureAfterPrepay, prepaymentAmount) ==
  [ emi                    |-> ToNumber(emi),
    outstandingPrincipal   |-> ToNumber(outstandingPrincipal),
    remainingTenure        |-> remainingTenure,
    newTenureAfterPrepay   |-> newTenureAfterPrepay,
    interestSaved          |->
      ToNumber(calculateInterestSaved(ToNumber(emi), remainingTenure,
                                      newTenureAfterPrepay, prepaymentAmount)),
    tenureReduced          |-> remainingTenure - newTenureAfterPrepay,
    totalCostWithoutPrepay |-> ToNumber(DMul(emi, Dec(remainingTenure))),
    totalCostWithPrepay    |->
      ToNumber(DMul(emi, Dec(newTenureAfterPrepay)) + prepaymentAmount) ]

\* The scenario, once the EMI and the outstanding principal are known.
prepaymentScenarioOfLoan(emi, outstandingPrincipal, annualRate, remainingTenure, prepaymentAmount) ==
  prepaymentScenarioResult(
    emi, outstandingPrincipal, remainingTenure,
    ceilMonths(calculateNewTenure(ToNumber(outstandingPrincipal), annualRate,
                                  ToNumber(emi), prepaymentAmount)),
    prepaymentAmount)

calculatePrepaymentScenario(originalPrincipal, annualRate, originalTenure, monthsPaid, prepaymentAmount) ==
  prepaymentScenarioOfLoan(
    calculateEMI(originalPrincipal, annualRate, originalTenure),
    calculateOutstandingPrincipal(originalPrincipal, annualRate, originalTenure, monthsPaid),
    annualRate, originalTenure - monthsPaid, prepaymentAmount)

(***************************************************************************)
(* Scenario 1B: lump-sum prepayment, tenure kept, EMI reduced.             *)
(***************************************************************************)

\* The result returned when the prepayment clears the balance, and when the
\* denominator of the new EMI is not positive (the two records are the same).
prepaymentScenario1BPaidOff(emi, outstandingPrincipal, remainingTenure, prepaymentAmount) ==
  [ emi                    |-> ToNumber(emi),
    newEmi                 |-> 0,
    emiReduction           |-> ToNumber(emi),
    outstandingPrincipal   |-> ToNumber(outstandingPrincipal),
    remainingTenure        |-> remainingTenure,
    interestSaved          |-> 0,
    totalCostWithoutPrepay |-> ToNumber(DMul(emi, Dec(remainingTenure))),
    totalCostWithPrepay    |-> prepaymentAmount,
    monthlyBenefit         |-> ToNumber(emi) ]

\* The result record, once the new EMI is known.
prepaymentScenario1BResult(emi, newEmi, outstandingPrincipal, remainingTenure, prepaymentAmount) ==
  [ emi                    |-> ToNumber(emi),
    newEmi                 |-> ToNumber(newEmi),
    emiReduction           |-> ToNumber(emi - newEmi),
    outstandingPrincipal   |-> ToNumber(outstandingPrincipal),
    remainingTenure        |-> remainingTenure,
    interestSaved          |->
      ToNumber(DMul(emi, Dec(remainingTenure))
                 - (DMul(newEmi, Dec(remainingTenure)) + prepaymentAmount)),
    totalCostWithoutPrepay |-> ToNumber(DMul(emi, Dec(remainingTenure))),
    totalCostWithPrepay    |->
      ToNumber(DMul(newEmi, Dec(remainingTenure)) + prepaymentAmount),
    monthlyBenefit         |-> ToNumber(emi - newEmi) ]

\* The scenario from (1+i)^N_remaining, for a positive balance after prepayment.
prepaymentScenario1BOfFactor(emi, outstandingPrincipal, remainingTenure, prepaymentAmount, i, onePlusIToN) ==
  IF onePlusIToN - Dec(1) <= 0
  THEN prepaymentScenario1BPaidOff(emi, outstandingPrincipal, remainingTenure,
                                   prepaymentAmount)
  ELSE prepaymentScenario1BResult(
         emi, emiQuotient(outstandingPrincipal - prepaymentAmount, i, onePlusIToN),
         outstandingPrincipal, remainingTenure, prepaymentAmount)

\* Mutant of prepaymentScenario1BOfLoan: the test of the balance left out.
prepaymentScenario1BOfLoan_noBalanceTest(emi, outstandingPrincipal, annualRate, remainingTenure, prepaymentAmount) ==
  prepaymentScenario1BOfFactor(
    emi, outstandingPrincipal, remainingTenure, prepaymentAmount,
    calculateMonthlyRate(annualRate),
    DPow(Dec(1) + calculateMonthlyRate(annualRate), remainingTenure))

\* The scenario, once the EMI and the outstanding principal are known.
prepaymentScenario1BOfLoan(emi, outstandingPrincipal, annualRate, remainingTenure, prepaymentAmount) ==
  IF outstandingPrincipal - prepaymentAmount <= 0
  THEN prepaymentScenario1BPaidOff(emi, outstandingPrincipal, remainingTenure,
                                   prepaymentAmount)
  ELSE prepaymentScenario1BOfFactor(
         emi, outstandingPrincipal, remainingTenure, prepaymentAmount,
         calculateMonthlyRate(annualRate),
         DPow(Dec(1) + calculateMonthlyRate(annualRate), remainingTenure))

calculatePrepaymentScenario1B(originalPrincipal, annualRate, originalTenure, monthsPaid, prepaymentAmount) ==
  prepaymentScenario1BOfLoan(
    calculateEMI(originalPrincipal, annualRate, originalTenure),
    calculateOutstandingPrincipal(originalPrincipal, annualRate, originalTenure, monthsPaid),
    annualRate, originalTenure - monthsPaid, prepaymentAmount)

(***************************************************************************)
(* Scenario 2: an extra amount on top of every EMI, tenure reduced.        *)
(***************************************************************************)

\* Mutant of scenario2NoExtra: the new tenure left at zero.
scenario2NoExtra_zeroTenure(emi, outstandingPrincipal, remainingTenure) ==
  [ emi                     |-> ToNumber(emi),
    effectiveMonthlyPayment |-> ToNumber(emi),
    outstandingPrincipal    |-> ToNumber(outstandingPrincipal),
    remainingTenure         |-> remainingTenure,
    newTenure               |-> 0,
    tenureReduced           |-> remainingTenure,
    interestSaved           |-> 0,
    totalExtraPaid          |-> 0,
    totalCostWithoutExtra   |-> ToNumber(DMul(emi, Dec(remainingTenure))),
    totalCostWithExtra      |-> ToNumber(DMul(emi, Dec(remainingTenure))) ]

\* The result when monthlyExtraPayment <= 0.
scenario2NoExtra(emi, outstandingPrincipal, remainingTenure) ==
  [ emi                     |-> ToNumber(emi),
    effectiveMonthlyPayment |-> ToNumber(emi),
    outstandingPrincipal    |-> ToNumber(outstandingPrincipal),
    remainingTenure         |-> remainingTenure,
    newTenure               |-> remainingTenure,
    tenureReduced           |-> 0,
    interestSaved           |-> 0,
    totalExtraPaid          |-> 0,
    totalCostWithoutExtra   |-> ToNumber(DMul(emi, Dec(remainingTenure))),
    totalCostWithExtra      |-> ToNumber(DMul(emi, Dec(remainingTenure))) ]

\* Mutant of scenario2Insufficient: the cost of the unchanged loan reported.
scenario2Insufficient_stayCost(emi, effectiveMonthlyPayment, outstandingPrincipal, remainingTenure) ==
  [ emi                     |-> ToNumber(emi),
    effectiveMonthlyPayment |-> ToNumber(effectiveMonthlyPayment),
    outstandingPrincipal    |-> ToNumber(outstandingPrincipal),
    remainingTenure         |-> remainingTenure,
    newTenure               |-> 0,
    tenureReduced           |-> remainingTenure,
    interestSaved           |-> 0,
    totalExtraPaid          |-> 0,
    totalCostWithoutExtra   |-> ToNumber(DMul(emi, Dec(remainingTenure))),
    totalCostWithExtra      |-> ToNumber(DMul(emi, Dec(remainingTenure))) ]

\* The result when the effective payment does not cover the interest.
scenario2Insufficient(emi, effectiveMonthlyPayment, outstandingPrincipal, remainingTenure) ==
  [ emi                     |-> ToNumber(emi),
    effectiveMonthlyPayment |-> ToNumber(effectiveMonthlyPayment),
    outstandingPrincipal    |-> ToNumber(outstandingPrincipal),
    remainingTenure         |-> remainingTenure,
    newTenure               |-> 0,
    tenureReduced           |-> remainingTenure,
    interestSaved           |-> 0,
    totalExtraPaid          |-> 0,
    totalCostWithoutExtra   |-> ToNumber(DMul(emi, Dec(remainingTenure))),
    totalCostWithExtra      |-> ToNumber(Dec(0)) ]

\* Mutant of scenario2Result: the extra counted over the remaining tenure.
scenario2Result_extraOverRemaining(emi, effectiveMonthlyPayment, outstandingPrincipal, remainingTenure, monthlyExtraPayment, newTenure) ==
  [ emi                     |-> ToNumber(emi),
    effectiveMonthlyPayment |-> ToNumber(effectiveMonthlyPayment),
    outstandingPrincipal    |-> ToNumber(outstandingPrincipal),
    remainingTenure         |-> remainingTenure,
    newTenure               |-> newTenure,
    tenureReduced           |-> remainingTenure - newTenure,
    interestSaved           |->
      ToNumber(DMul(emi, Dec(remainingTenure))
                 - DMul(effectiveMonthlyPayment, Dec(newTenure))),
    totalExtraPaid          |-> ToNumber(DMul(monthlyExtraPayment, Dec(remainingTenure))),
    totalCostWithoutExtra   |-> ToNumber(DMul(emi, Dec(remainingTenure))),
    totalCostWithExtra      |-> ToNumber(DMul(effectiveMonthlyPayment, Dec(newTenure))) ]

\* The result record, once the new tenure is known.
scenario2Result(emi, effectiveMonthlyPayment, outstandingPrincipal, remainingTenure, monthlyExtraPayment, newTenure) ==
  [ emi                     |-> ToNumber(emi),
    effectiveMonthlyPayment |-> ToNumber(effectiveMonthlyPayment),
    outstandingPrincipal    |-> ToNumber(outstandingPrincipal),
    remainingTenure         |-> remainingTenure,
    newTenure               |-> newTenure,
    tenureReduced           |-> remainingTenure - newTenure,
    interestSaved           |->
      ToNumber(DMul(emi, Dec(remainingTenure))
                 - DMul(effectiveMonthlyPayment, Dec(newTenure))),
    totalExtraPaid          |-> ToNumber(DMul(monthlyExtraPayment, Dec(newTenure))),
    totalCostWithoutExtra   |-> ToNumber(DMul(emi, Dec(remainingTenure))),
    totalCostWithExtra      |-> ToNumber(DMul(effectiveMonthlyPayment, Dec(newTenure))) ]

\* The scenario for a positive extra, from the monthly rate.
scenario2WithExtra(emi, outstandingPrincipal, i, remainingTenure, monthlyExtraPayment) ==
  IF (emi + monthlyExtraPayment) - DMul(outstandingPrincipal, i) <= 0
  THEN scenario2Insufficient(emi, emi + monthlyExtraPayment, outstandingPrincipal,
                             remainingTenure)
  ELSE scenario2Result(
         emi, emi + monthlyExtraPayment, outstandingPrincipal, remainingTenure,
         monthlyExtraPayment,
         ceilMonths(tenureFormula(outstandingPrincipal, i, emi + monthlyExtraPayment)))

\* The scenario, once the EMI and the outstanding principal are known.
scenario2OfLoan(emi, outstandingPrincipal, annualRate, remainingTenure, monthlyExtraPayment) ==
  IF monthlyExtraPayment <= 0
  THEN scenario2NoExtra(emi, outstandingPrincipal, remainingTenure)
  ELSE scenario2WithExtra(emi, outstandingPrincipal, calculateMonthlyRate(annualRate),
                          remainingTenure, monthlyExtraPayment)

calculateScenario2(originalPrincipal, annualRate, originalTenure, monthsPaid, monthlyExtraPayment) ==
  scenario2OfLoan(
    calculateEMI(originalPrincipal, annualRate, originalTenure),
    calculateOutstandingPrincipal(originalPrincipal, annualRate, originalTenure, monthsPaid),
    annualRate, originalTenure - monthsPaid, monthlyExtraPayment)

(***************************************************************************)
(* Scenario 3: Stay / A prepay only / B refinance only / C prepay and      *)
(* refinance.  The option records below hold Decimals; calculateScenario3  *)
(* converts them with toNumber() when it builds its result.                *)
(***************************************************************************)

\* The values every option starts from.
scenario3Base(emi, outstandingPrincipal, originalPrincipal, currentRate, originalTenure, monthsPaid) ==
  [ emi                  |-> emi,
    outstandingPrincipal |-> outstandingPrincipal,
    remainingTenure      |-> originalTenure - monthsPaid,
    alreadyPaid          |-> DMul(emi, Dec(monthsPaid)),
    i_current            |-> calculateMonthlyRate(currentRate),
    stayTotalCost        |-> DMul(emi, Dec(monthsPaid)) + DMul(emi, Dec(originalTenure - monthsPaid)),
    stayTotalInterest    |->
      (DMul(emi, Dec(monthsPaid)) + DMul(emi, Dec(originalTenure - monthsPaid)))
        - originalPrincipal ]

\* Option A with its new tenure and total cost.
optionA_valid(b, originalPrincipal, tenure, totalCost) ==
  [ totalCost      |-> totalCost,
    totalInterest  |-> totalCost - originalPrincipal,
    monthlyPayment |-> b.emi,
    tenure         |-> tenure,
    hasBenefit     |-> totalCost < b.stayTotalCost,
    status         |-> Undefined ]

\* Option A when the EMI does not cover the interest on the reduced balance.
optionA_invalid(b, originalPrincipal, prepaymentAmount) ==
  [ totalCost      |-> b.alreadyPaid + prepaymentAmount,
    totalInterest  |-> (b.alreadyPaid + prepaymentAmount) - originalPrincipal,
    monthlyPayment |-> b.emi,
    tenure         |-> 0,
    hasBenefit     |-> FALSE,
    status         |-> "Invalid scenario" ]

\* Option A from its new tenure.
optionA_ofTenure(b, originalPrincipal, prepaymentAmount, tenure) ==
  optionA_valid(b, originalPrincipal, tenure,
                b.alreadyPaid + DMul(b.emi, Dec(tenure)) + prepaymentAmount)

\* Option A when 0 < prepayment < outstanding principal.
optionA_prepay(b, originalPrincipal, prepaymentAmount) ==
  IF b.emi - DMul(b.outstandingPrincipal - prepaymentAmount, b.i_current) > 0
  THEN optionA_ofTenure(
         b, originalPrincipal, prepaymentAmount,
         ceilMonths(tenureFormula(b.outstandingPrincipal - prepaymentAmount,
                                  b.i_current, b.emi)))
  ELSE optionA_invalid(b, originalPrincipal, prepaymentAmount)

\* Mutant of optionA_sameAsStay: the costs left at their initial values.
optionA_sameAsStay_initialCost(b, prepaymentAmount) ==
  [ totalCost      |-> b.alreadyPaid,
    totalInterest  |-> 0,
    monthlyPayment |-> b.emi,
    tenure         |-> b.remainingTenure,
    hasBenefit     |-> FALSE,
    status         |-> IF prepaymentAmount = 0 THEN "No benefit (same as Stay)"
                       ELSE "Invalid prepayment amount" ]

\* Option A when there is no prepayment or it is not below the outstanding principal.
optionA_sameAsStay(b, prepaymentAmount) ==
  [ totalCost      |-> b.stayTotalCost,
    totalInterest  |-> b.stayTotalInterest,
    monthlyPayment |-> b.emi,
    tenure         |-> b.remainingTenure,
    hasBenefit     |-> FALSE,
    status         |-> IF prepaymentAmount = 0 THEN "No benefit (same as Stay)"
                       ELSE "Invalid prepayment amount" ]

optionA(b, originalPrincipal, prepaymentAmount) ==
  IF prepaymentAmount > 0 /\ prepaymentAmount < ToNumber(b.outstandingPrincipal)
  THEN optionA_prepay(b, originalPrincipal, prepaymentAmount)
  ELSE optionA_sameAsStay(b, prepaymentAmount)

\* Mutant of optionB_hasBenefit: the rate comparison left out.
optionB_hasBenefit_costOnly(newRate, currentRate, optionB_totalCost, stayTotalCost) ==
  optionB_totalCost < stayTotalCost

\* hasBenefit of option B.
optionB_hasBenefit(newRate, currentRate, optionB_totalCost, stayTotalCost) ==
  newRate < currentRate /\ optionB_totalCost < stayTotalCost

\* status of option B.
optionB_status(newRate, currentRate) ==
  IF newRate >= currentRate THEN "No benefit (rate not lower)" ELSE Undefined

\* Option B from its EMI and total cost.
optionB_ofCost(b, originalPrincipal, currentRate, newRate, newTenure, optionB_emi, totalCost) ==
  [ totalCost      |-> totalCost,
    totalInterest  |-> totalCost - originalPrincipal,
    monthlyPayment |-> optionB_emi,
    tenure         |-> newTenure,
    hasBenefit     |-> optionB_hasBenefit(newRate, currentRate, totalCost, b.stayTotalCost),
    status         |-> optionB_status(newRate, currentRate) ]

\* Option B from its EMI.
optionB_ofEmi(b, originalPrincipal, currentRate, newRate, newTenure, optionB_emi) ==
  optionB_ofCost(b, originalPrincipal, currentRate, newRate, newTenure, optionB_emi,
                 b.alreadyPaid + DMul(optionB_emi, Dec(newTenure)))

optionB(b, originalPrincipal, currentRate, newRate, refinanceCost, newTenure) ==
  optionB_ofEmi(b, originalPrincipal, currentRate, newRate, newTenure,
                calculateEMI(b.outstandingPrincipal + refinanceCost, newRate, newTenure))

\* Mutant of optionC_sameAsB: totalInterest left at its initial value.
optionC_sameAsB_initialInterest(B) ==
  [ totalCost      |-> B.totalCost,
    totalInterest  |-> 0,
    monthlyPayment |-> B.monthlyPayment,
    tenure         |-> B.tenure,
    hasBenefit     |-> FALSE,
    status         |-> "Same as Option B (no prepayment)" ]

\* Option C when prepayment = 0.
optionC_sameAsB(B) ==
  [ totalCost      |-> B.totalCost,
    totalInterest  |-> B.totalInterest,
    monthlyPayment |-> B.monthlyPayment,
    tenure         |-> B.tenure,
    hasBenefit     |-> FALSE,
    status         |-> "Same as Option B (no prepayment)" ]

\* Option C from its EMI and total cost.
optionC_ofCost(A, originalPrincipal, currentRate, newRate, newTenure, optionC_emi, totalCost) ==
  [ totalCost      |-> totalCost,
    totalInterest  |-> totalCost - originalPrincipal,
    monthlyPayment |-> optionC_emi,
    tenure         |-> newTenure,
    hasBenefit     |-> IF newRate >= currentRate THEN FALSE
                       ELSE totalCost < A.totalCost,
    status         |-> IF newRate >= currentRate THEN "No benefit (rate not lower)"
                       ELSE Undefined ]

\* Option C from its EMI.
optionC_ofEmi(b, A, originalPrincipal, currentRate, prepaymentAmount, newRate, newTenure, optionC_emi) ==
  optionC_ofCost(A, originalPrincipal, currentRate, newRate, newTenure, optionC_emi,
                 b.alreadyPaid + DMul(optionC_emi, Dec(newTenure)) + prepaymentAmount)

\* Option C when the refinanced principal is positive and prepayment < outstanding.
optionC_refinance(b, A, originalPrincipal, currentRate, prepaymentAmount, newRate, P_refi_C, newTenure) ==
  optionC_ofEmi(b, A, originalPrincipal, currentRate, prepaymentAmount, newRate, newTenure,
                calculateEMI(P_refi_C, newRate, newTenure))

\* Option C otherwise: the Stay numbers.
optionC_invalid(b) ==
  [ totalCost      |-> b.stayTotalCost,
    totalInterest  |-> b.stayTotalInterest,
    monthlyPayment |-> b.emi,
    tenure         |-> b.remainingTenure,
    hasBenefit     |-> FALSE,
    status         |-> "Invalid scenario" ]

\* Mutant of optionC: the prepayment < outstanding test left out.
optionC_noBalanceTest(b, A, B, originalPrincipal, currentRate, prepaymentAmount, newRate, refinanceCost, newTenure) ==
  IF prepaymentAmount = 0 THEN optionC_sameAsB(B)
  ELSE IF (b.outstandingPrincipal - prepaymentAmount) + refinanceCost > 0
  THEN optionC_refinance(b, A, originalPrincipal, currentRate, prepaymentAmount, newRate,
                         (b.outstandingPrincipal - prepaymentAmount) + refinanceCost,
                         newTenure)
  ELSE optionC_invalid(b)

optionC(b, A, B, originalPrincipal, currentRate, prepaymentAmount, newRate, refinanceCost, newTenure) ==
  IF prepaymentAmount = 0 THEN optionC_sameAsB(B)
  ELSE IF /\ (b.outstandingPrincipal - prepaymentAmount) + refinanceCost > 0
          /\ prepaymentAmount < ToNumber(b.outstandingPrincipal)
  THEN optionC_refinance(b, A, originalPrincipal, currentRate, prepaymentAmount, newRate,
                         (b.outstandingPrincipal - prepaymentAmount) + refinanceCost,
                         newTenure)
  ELSE optionC_invalid(b)

\* Mutant of reducer: the comparison reversed.
reducer_reversed(costs, a, b) == IF costs[a] > costs[b] THEN a ELSE b

\* The reducer (a, b) => costs[a] < costs[b] ? a : b.
reducer(costs, a, b) == IF costs[a] < costs[b] THEN a ELSE b

\* validOptions.reduce(reducer) from the k-th key on, with accumulator acc.
RECURSIVE reduceOptions(_, _, _, _)
reduceOptions(costs, validOptions, acc, k) ==
  IF k > Len(validOptions) THEN acc
  ELSE reduceOptions(costs, validOptions, reducer(costs, acc, validOptions[k]), k + 1)

\* Mutant of ruleNoPrepayment: the newRate < currentRate test left out.
ruleNoPrepayment_noRateTest(b, B, currentRate, newRate) ==
  IF B.totalCost < b.stayTotalCost
  THEN [ bestOption |-> "B",
         maxSavings |-> NumSub(ToNumber(b.stayTotalCost), ToNumber(B.totalCost)) ]
  ELSE [ bestOption |-> "stay", maxSavings |-> 0 ]

\* Rule 1/2: no prepayment.
ruleNoPrepayment(b, B, currentRate, newRate) ==
  IF newRate < currentRate /\ B.totalCost < b.stayTotalCost
  THEN [ bestOption |-> "B",
         maxSavings |-> NumSub(ToNumber(b.stayTotalCost), ToNumber(B.totalCost)) ]
  ELSE [ bestOption |-> "stay", maxSavings |-> 0 ]

\* Mutant of ruleRateNotLower: A chosen without looking at its benefit.
ruleRateNotLower_alwaysA(b, A) ==
  [ bestOption |-> "A",
    maxSavings |-> NumSub(ToNumber(b.stayTotalCost), ToNumber(A.totalCost)) ]

\* Rule 3: prepayment and a new rate that is not lower.
ruleRateNotLower(b, A) ==
  IF A.hasBenefit
  THEN [ bestOption |-> "A",
         maxSavings |-> NumSub(ToNumber(b.stayTotalCost), ToNumber(A.totalCost)) ]
  ELSE [ bestOption |-> "stay", maxSavings |-> 0 ]

\* Mutant of compareAllResult: the savings always measured against option A.
compareAllResult_savingsOfA(costs, bestOption) ==
  [ bestOption |-> bestOption,
    maxSavings |-> NumSub(costs.stay, costs.A) ]

\* Rule 5, its result from the costs and the option picked.
compareAllResult(costs, bestOption) ==
  [ bestOption |-> bestOption,
    maxSavings |-> NumSub(costs.stay, costs[bestOption]) ]

\* Mutant of compareAllCosts: Stay left out of the comparison.
compareAllCosts_withoutStay(costs, validOptions) ==
  compareAllResult(costs, reduceOptions(costs, validOptions, validOptions[2], 3))

\* Rule 5, from the costs object and its keys in insertion order.
compareAllCosts(costs, validOptions) ==
  compareAllResult(costs, reduceOptions(costs, validOptions, validOptions[1], 2))

\* Rule 5: lowest cost among stay, A, B when newRate < currentRate, and C
\* when prepayment > 0.  (A key left out of validOptions is never read.)
ruleCompareAll(b, A, B, C, currentRate, prepaymentAmount, newRate) ==
  compareAllCosts(
    [ stay |-> ToNumber(b.stayTotalCost),
      A    |-> ToNumber(A.totalCost),
      B    |-> ToNumber(B.totalCost),
      C    |-> ToNumber(C.totalCost) ],
    <<"stay", "A">>
      \o (IF newRate < currentRate THEN <<"B">> ELSE <<>>)
      \o (IF prepaymentAmount > 0 THEN <<"C">> ELSE <<>>))

\* The rule chain that sets bestOption and maxSavings.
findBestOption(b, A, B, C, currentRate, prepaymentAmount, newRate) ==
  IF prepaymentAmount = 0 THEN ruleNoPrepayment(b, B, currentRate, newRate)
  ELSE IF newRate >= currentRate /\ prepaymentAmount > 0 THEN ruleRateNotLower(b, A)
  ELSE IF newRate >= currentRate /\ prepaymentAmount = 0
  THEN [ bestOption |-> "stay", maxSavings |-> 0 ]
  ELSE ruleCompareAll(b, A, B, C, currentRate, prepaymentAmount, newRate)

\* One option of the result: its Decimals converted with toNumber().
optionResult(o) ==
  [ totalCost      |-> ToNumber(o.totalCost),
    totalInterest  |-> ToNumber(o.totalInterest),
    monthlyPayment |-> ToNumber(o.monthlyPayment),
    tenure         |-> o.tenure,
    hasBenefit     |-> o.hasBenefit,
    status         |-> o.status ]

\* The returned object.
scenario3Result(b, A, B, C, best) ==
  [ emi                  |-> ToNumber(b.emi),
    outstandingPrincipal |-> ToNumber(b.outstandingPrincipal),
    remainingTenure      |-> b.remainingTenure,
    stay    |-> [ totalCost      |-> ToNumber(b.stayTotalCost),
                  totalInterest  |-> ToNumber(b.stayTotalInterest),
                  monthlyPayment |-> ToNumber(b.emi),
                  tenure         |-> b.remainingTenure,
                  hasBenefit     |-> TRUE,
                  status         |-> Undefined ],
    optionA |-> optionResult(A),
    optionB |-> optionResult(B),
    optionC |-> optionResult(C),
    bestOption |-> best.bestOption,
    maxSavings |-> best.maxSavings ]

\* Scenario 3 once the options are known.
scenario3OfOptions(b, A, B, C, currentRate, prepaymentAmount, newRate) ==
  scenario3Result(b, A, B, C,
                  findBestOption(b, A, B, C, currentRate, prepaymentAmount, newRate))

\* Scenario 3 once options A and B are known.
scenario3OfAB(b, A, B, originalPrincipal, currentRate, prepaymentAmount, newRate, refinanceCost, newTenure) ==
  scenario3OfOptions(
    b, A, B,
    optionC(b, A, B, originalPrincipal, currentRate, prepaymentAmount, newRate,
            refinanceCost, newTenure),
    currentRate, prepaymentAmount, newRate)

\* Scenario 3 once the Stay values are known.
scenario3OfBase(b, originalPrincipal, currentRate, prepaymentAmount, newRate, refinanceCost, newTenure) ==
  scenario3OfAB(
    b,
    optionA(b, originalPrincipal, prepaymentAmount),
    optionB(b, originalPrincipal, currentRate, newRate, refinanceCost, newTenure),
    originalPrincipal, currentRate, prepaymentAmount, newRate, refinanceCost, newTenure)

calculateScenario3(originalPrincipal, currentRate, originalTenure, monthsPaid, prepaymentAmount, newRate, refinanceCost, newTenure) ==
  scenario3OfBase(
    scenario3Base(
      calculateEMI(originalPrincipal, currentRate, originalTenure),
      calculateOutstandingPrincipal(originalPrincipal, currentRate, originalTenure, monthsPaid),
      originalPrincipal, currentRate, originalTenure, monthsPaid),
    originalPrincipal, currentRate, prepaymentAmount, newRate, refinanceCost, newTenure)

(***************************************************************************)
(* The engine as a state machine: a caller holds one set of inputs and     *)
(* applies the scenario functions to it; each result is kept as a          *)
(* one-element sequence, empty until the function has been called.         *)
(***************************************************************************)
VARIABLES inp, res3, res1A, res1B, res2, resNewTenure, calls, page, engineCall, route, api

vars == <<inp, res3, res1A, res1B, res2, resNewTenure, calls, page, engineCall, route, api>>

\* Largest original tenure (months) the inputs are drawn from.
MaxTenure == 4

Principals == {Dec(400), Dec(500)}

Rates == {Dec(12), Dec(60), Dec(120)}

Prepayments == {Dec(0), Dec(100), Dec(250), Dec(400), Dec(600)}

RefinanceCosts == {Dec(0), Dec(40)}

NewTenures == {2, MaxTenure}

Inputs ==
  [ principal      : Principals,
    rate           : Rates,
    tenure         : 3..MaxTenure,
    monthsPaid     : 0..2,
    prepayment     : Prepayments,
    newRate        : Rates,
    refinanceCost  : RefinanceCosts,
    newTenure      : NewTenures ]

Init ==
  /\ inp \in Inputs
  /\ res3 = <<>>
  /\ res1A = <<>>
  /\ res1B = <<>>
  /\ res2 = <<>>
  /\ resNewTenure = <<>>
  /\ calls = <<>>
  /\ page = <<>>
  /\ engineCall = <<>>
  /\ route = ""
  /\ api = <<>>

Scenario3 ==
  /\ res3' = << calculateScenario3(inp.principal, inp.rate, inp.tenure, inp.monthsPaid,
                                   inp.prepayment, inp.newRate, inp.refinanceCost,
                                   inp.newTenure) >>
  /\ UNCHANGED <<inp, res1A, res1B, res2, resNewTenure, calls, page, engineCall, route, api>>

PrepaymentScenario ==
  /\ res1A' = << calculatePrepaymentScenario(inp.principal, inp.rate, inp.tenure,
                                             inp.monthsPaid, inp.prepayment) >>
  /\ UNCHANGED <<inp, res3, res1B, res2, resNewTenure, calls, page, engineCall, route, api>>

Next == Scenario3 \/ PrepaymentScenario

Spec == Init /\ [][Next]_vars

(***************************************************************************)
(* The four scenario functions applied to one loan.  The engine does not   *)
(* reject a principal below zero or a monthsPaid beyond the tenure; they   *)
(* are the inputs with which a payment does not cover the interest and     *)
(* with which the tenure formula gives a negative number of months.        *)
(***************************************************************************)
EnginePrincipals == {Dec(-400), Dec(400)}

EngineRates == {Dec(12), Dec(60)}

EnginePrepayments == {Dec(0), Dec(100), Dec(400)}

MonthlyExtras == {Dec(-50), Dec(0), Dec(50)}

EngineNewRates == {Dec(12), Dec(120)}

EngineLoans ==
  [ principal      : EnginePrincipals,
    rate           : EngineRates,
    tenure         : 3..MaxTenure,
    monthsPaid     : {0, 2, MaxTenure + 1},
    monthlyExtra   : MonthlyExtras,
    newRate        : EngineNewRates,
    refinanceCost  : {Dec(40)},
    newTenure      : {2} ]

\* The outstanding principal of a loan as the engine reports it to its caller.
reportedOutstanding(loan) ==
  ToNumber(calculateOutstandingPrincipal(loan.principal, loan.rate, loan.tenure,
                                         loan.monthsPaid))

\* The prepayments tried on a loan: fixed amounts, and the whole of the
\* outstanding principal that the engine reports for it.
prepaymentsOf(loan) == EnginePrepayments \cup {Max(0, reportedOutstanding(loan))}

withPrepayment(loan, prepaymentAmount) ==
  [ principal      |-> loan.principal,
    rate           |-> loan.rate,
    tenure         |-> loan.tenure,
    monthsPaid     |-> loan.monthsPaid,
    prepayment     |-> prepaymentAmount,
    monthlyExtra   |-> loan.monthlyExtra,
    newRate        |-> loan.newRate,
    refinanceCost  |-> loan.refinanceCost,
    newTenure      |-> loan.newTenure ]

EngineInputs ==
  UNION { { withPrepayment(loan, p) : p \in prepaymentsOf(loan) } : loan \in EngineLoans }

EngineInit ==
  /\ inp \in EngineInputs
  /\ res3 = <<>>
  /\ res1A = <<>>
  /\ res1B = <<>>
  /\ res2 = <<>>
  /\ resNewTenure = <<>>
  /\ calls = <<>>
  /\ page = <<>>
  /\ engineCall = <<>>
  /\ route = ""
  /\ api = <<>>

PrepaymentScenario1B ==
  /\ res1B' = << calculatePrepaymentScenario1B(inp.principal, inp.rate, inp.tenure,
                                               inp.monthsPaid, inp.prepayment) >>
  /\ UNCHANGED <<inp, res3, res1A, res2, resNewTenure, calls, page, engineCall, route, api>>

Scenario2 ==
  /\ res2' = << calculateScenario2(inp.principal, inp.rate, inp.tenure,
                                   inp.monthsPaid, inp.monthlyExtra) >>
  /\ UNCHANGED <<inp, res3, res1A, res1B, resNewTenure, calls, page, engineCall, route, api>>

EngineNext == Scenario3 \/ PrepaymentScenario \/ PrepaymentScenario1B \/ Scenario2

EngineSpec == EngineInit /\ [][EngineNext]_vars

(***************************************************************************)
(* The tenure solver applied on its own to a balance, a rate and a payment.*)
(***************************************************************************)
SolverBalances == {Dec(0), Dec(100), Dec(400)}

SolverPayments == {Dec(1), Dec(4), Dec(20), Dec(150)}

SolverPrepayments == {Dec(0), Dec(100), Dec(400), Dec(500)}

SolverInputs ==
  [ outstandingPrincipal : SolverBalances,
    rate                 : EngineRates,
    emi                  : SolverPayments,
    prepayment           : SolverPrepayments ]

SolverInit ==
  /\ inp \in SolverInputs
  /\ res3 = <<>>
  /\ res1A = <<>>
  /\ res1B = <<>>
  /\ res2 = <<>>
  /\ resNewTenure = <<>>
  /\ calls = <<>>
  /\ page = <<>>
  /\ engineCall = <<>>
  /\ route = ""
  /\ api = <<>>

NewTenure ==
  /\ resNewTenure' = << calculateNewTenure(inp.outstandingPrincipal, inp.rate,
                                           inp.emi, inp.prepayment) >>
  /\ UNCHANGED <<inp, res3, res1A, res1B, res2, calls, page, engineCall, route, api>>

SolverNext == NewTenure

SolverSpec == SolverInit /\ [][SolverNext]_vars

(***************************************************************************)
(* A caller that invokes the scenario functions again and again on the     *)
(* same inputs, in any order; calls is the log of the calls made so far.   *)
(* The module of the engine declares no variable of its own: a function    *)
(* reads its arguments only.                                               *)
(***************************************************************************)

\* Longest log of calls kept.
MaxCalls == 3

ScenarioFunctions ==
  { "calculatePrepaymentScenario", "calculatePrepaymentScenario1B",
    "calculateScenario2", "calculateScenario3" }

RepeatInputs ==
  [ principal      : {Dec(400)},
    rate           : EngineRates,
    tenure         : {3},
    monthsPaid     : {0},
    prepayment     : {Dec(0), Dec(100)},
    monthlyExtra   : {Dec(50)},
    newRate        : {Dec(12)},
    refinanceCost  : {Dec(40)},
    newTenure      : {2} ]

\* Mutant of invoke: a call made right after a call of another function sees
\* a prepayment and an extra larger by one unit.
invoke_afterAnother(fn, in) ==
  IF calls # <<>> /\ calls[Len(calls)].fn # fn
  THEN IF fn = "calculateScenario2"
       THEN calculateScenario2(in.principal, in.rate, in.tenure, in.monthsPaid,
                               in.monthlyExtra + Dec(1))
       ELSE calculatePrepaymentScenario(in.principal, in.rate, in.tenure,
                                        in.monthsPaid, in.prepayment + Dec(1))
  ELSE calculatePrepaymentScenario(in.principal, in.rate, in.tenure,
                                   in.monthsPaid, in.prepayment)

\* The value a scenario function returns for the inputs in.
invoke(fn, in) ==
  CASE fn = "calculatePrepaymentScenario" ->
         calculatePrepaymentScenario(in.principal, in.rate, in.tenure,
                                     in.monthsPaid, in.prepayment)
    [] fn = "calculatePrepaymentScenario1B" ->
         calculatePrepaymentScenario1B(in.principal, in.rate, in.tenure,
                                       in.monthsPaid, in.prepayment)
    [] fn = "calculateScenario2" ->
         calculateScenario2(in.principal, in.rate, in.tenure, in.monthsPaid,
                            in.monthlyExtra)
    [] fn = "calculateScenario3" ->
         calculateScenario3(in.principal, in.rate, in.tenure, in.monthsPaid,
                            in.prepayment, in.newRate, in.refinanceCost,
                            in.newTenure)

RepeatInit ==
  /\ inp \in RepeatInputs
  /\ res3 = <<>>
  /\ res1A = <<>>
  /\ res1B = <<>>
  /\ res2 = <<>>
  /\ resNewTenure = <<>>
  /\ calls = <<>>
  /\ page = <<>>
  /\ engineCall = <<>>
  /\ route = ""
  /\ api = <<>>

Call ==
  /\ Len(calls) < MaxCalls
  /\ \E fn \in ScenarioFunctions :
       calls' = Append(calls, [ fn |-> fn, result |-> invoke(fn, inp) ])
  /\ UNCHANGED <<inp, res3, res1A, res1B, res2, resNewTenure, page, engineCall, route, api>>

RepeatNext == Call

RepeatSpec == RepeatInit /\ [][RepeatNext]_vars

(***************************************************************************)
(* The leaf formulas applied on their own to a loan of a principal, a rate *)
(* and a whole tenure: the outstanding principal after any number of paid  *)
(* months, and the tenure solver fed with the EMI of the loan.  The        *)
(* principals include one that is not a whole currency unit.               *)
(***************************************************************************)
LeafPrincipals == {Dec(100), Dec(400), Dec(400) + (DScale \div 2), Dec(1000)}

LeafRates == {Dec(9), Dec(12), Dec(60)}

LeafInputs ==
  [ principal : LeafPrincipals,
    rate      : LeafRates,
    tenure    : 1..MaxTenure ]

LeafInit ==
  /\ inp \in LeafInputs
  /\ res3 = <<>>
  /\ res1A = <<>>
  /\ res1B = <<>>
  /\ res2 = <<>>
  /\ resNewTenure = <<>>
  /\ calls = <<>>
  /\ page = <<>>
  /\ engineCall = <<>>
  /\ route = ""
  /\ api = <<>>

\* calculateOutstandingPrincipal after monthsPaid months, once per loan.
OutstandingPrincipal ==
  /\ calls = <<>>
  /\ \E monthsPaid \in 0..inp.tenure :
       calls' = << [ fn         |-> "calculateOutstandingPrincipal",
                     monthsPaid |-> monthsPaid,
                     result     |->
                       calculateOutstandingPrincipal(inp.principal, inp.rate,
                                                     inp.tenure, monthsPaid) ] >>
  /\ UNCHANGED <<inp, res3, res1A, res1B, res2, resNewTenure, page, engineCall, route, api>>

\* The EMI of the loan as the number a caller holds.
emiNumber(in) == ToNumber(calculateEMI(in.principal, in.rate, in.tenure))

\* calculateNewTenure of the whole principal paid with the EMI of the loan.
TenureOfEmi ==
  /\ resNewTenure' = << calculateNewTenure(inp.principal, inp.rate, emiNumber(inp), 0) >>
  /\ UNCHANGED <<inp, res3, res1A, res1B, res2, calls, page, engineCall, route, api>>

LeafNext == OutstandingPrincipal \/ TenureOfEmi

LeafSpec == LeafInit /\ [][LeafNext]_vars

(***************************************************************************)
(* The lump-sum calculator page (src/app/lump-sum/page.tsx).  page is its  *)
(* React state.  An edit sets one field and the page renders again, which  *)
(* recomputes its memos; engineCall is the call of the engine that the     *)
(* result memo of the latest render made, empty when the memo returned     *)
(* null.  On the page the principal is counted in thousands and the rate   *)
(* in whole percent; prepaymentAmount is a number, as the outstanding      *)
(* principal it is limited by.                                             *)
(***************************************************************************)
engineVars == <<inp, res3, res1A, res1B, res2, resNewTenure, calls>>

Min(a, b) == IF a <= b THEN a ELSE b

VALIDATION_RULES ==
  [ principal    |-> [ min |-> 50, max |-> 100000 ],
    interestRate |-> [ min |-> 1, max |-> 30 ],
    tenureMonths |-> [ min |-> 12, max |-> 360 ] ]

\* The keys of the errors object of the validate memo.
validate(s) ==
  (IF \/ s.principal < VALIDATION_RULES.principal.min
      \/ s.principal > VALIDATION_RULES.principal.max
   THEN {"principal"} ELSE {})
  \cup
  (IF \/ s.interest < VALIDATION_RULES.interestRate.min
      \/ s.interest > VALIDATION_RULES.interestRate.max
   THEN {"interestRate"} ELSE {})
  \cup
  (IF \/ s.tenureMonths < VALIDATION_RULES.tenureMonths.min
      \/ s.tenureMonths > VALIDATION_RULES.tenureMonths.max
   THEN {"tenureMonths"} ELSE {})
  \cup
  (IF s.monthsPaid < 0 \/ s.monthsPaid >= s.tenureMonths
   THEN {"monthsPaid"} ELSE {})

isValid(s) == validate(s) = {}

safeMonthsPaid(s) == Max(0, Min(s.monthsPaid, s.tenureMonths - 1))

\* The outstandingPrincipal memo: 0 while the loan fields are invalid.
lumpSumOutstandingPrincipal(s) ==
  IF ~isValid(s) THEN 0
  ELSE calculatePrepaymentScenario(Dec(s.principal), Dec(s.interest), s.tenureMonths,
                                   safeMonthsPaid(s), 0).outstandingPrincipal

lumpSumEngineCall(fn, originalPrincipal, annualRate, originalTenure, monthsPaid, prepaymentAmount) ==
  [ fn                |-> fn,
    originalPrincipal |-> originalPrincipal,
    annualRate        |-> annualRate,
    originalTenure    |-> originalTenure,
    monthsPaid        |-> monthsPaid,
    prepaymentAmount  |-> prepaymentAmount,
    result            |->
      IF fn = "calculatePrepaymentScenario1B"
      THEN calculatePrepaymentScenario1B(originalPrincipal, annualRate, originalTenure,
                                         monthsPaid, prepaymentAmount)
      ELSE calculatePrepaymentScenario(originalPrincipal, annualRate, originalTenure,
                                       monthsPaid, prepaymentAmount) ]

\* The result memo: null (no call) while the loan fields are invalid.
lumpSumResult(s) ==
  IF ~isValid(s) THEN <<>>
  ELSE << lumpSumEngineCall(
            IF s.scenario = "1B" THEN "calculatePrepaymentScenario1B"
            ELSE "calculatePrepaymentScenario",
            Dec(s.principal), Dec(s.interest), s.tenureMonths, safeMonthsPaid(s),
            Max(0, s.prepaymentAmount)) >>

(***************************************************************************)
(* The monthly-extra page (src/app/monthly-extra/page.tsx) and the         *)
(* all-in-one calculator page Home.  For these two pages engineCall holds  *)
(* the function called and its arguments.  monthlyExtra, prepay and        *)
(* refinanceCost are numbers; newRate is in whole percent.                 *)
(***************************************************************************)
MonthlyExtraRules ==
  [ principal    |-> [ min |-> 50, max |-> 100000 ],
    interestRate |-> [ min |-> 1, max |-> 30 ],
    tenureMonths |-> [ min |-> 12, max |-> 360 ],
    monthlyExtra |-> [ min |-> Dec(1) \div 2, max |-> Dec(500) ] ]

\* The keys of the errors object of the validate memo.
monthlyExtraValidate(s) ==
  (IF \/ s.principal < MonthlyExtraRules.principal.min
      \/ s.principal > MonthlyExtraRules.principal.max
   THEN {"principal"} ELSE {})
  \cup
  (IF \/ s.interest < MonthlyExtraRules.interestRate.min
      \/ s.interest > MonthlyExtraRules.interestRate.max
   THEN {"interestRate"} ELSE {})
  \cup
  (IF \/ s.tenureMonths < MonthlyExtraRules.tenureMonths.min
      \/ s.tenureMonths > MonthlyExtraRules.tenureMonths.max
   THEN {"tenureMonths"} ELSE {})
  \cup
  (IF s.monthsPaid < 0 \/ s.monthsPaid >= s.tenureMonths
   THEN {"monthsPaid"} ELSE {})
  \cup
  (IF \/ s.monthlyExtra < MonthlyExtraRules.monthlyExtra.min
      \/ s.monthlyExtra > MonthlyExtraRules.monthlyExtra.max
   THEN {"monthlyExtra"} ELSE {})

\* The result memo: null (no call) while a field is invalid.
monthlyExtraResult(s) ==
  IF monthlyExtraValidate(s) # {} THEN <<>>
  ELSE << [ fn                  |-> "calculateScenario2",
            originalPrincipal   |-> Dec(s.principal),
            annualRate          |-> Dec(s.interest),
            originalTenure      |-> s.tenureMonths,
            monthsPaid          |-> safeMonthsPaid(s),
            monthlyExtraPayment |->
              Max(MonthlyExtraRules.monthlyExtra.min,
                  Min(s.monthlyExtra, MonthlyExtraRules.monthlyExtra.max)) ] >>

HomeRules ==
  [ principal     |-> [ min |-> 50, max |-> 100000 ],
    interestRate  |-> [ min |-> 1, max |-> 30 ],
    tenureMonths  |-> [ min |-> 12, max |-> 360 ],
    monthlyExtra  |-> [ min |-> Dec(1) \div 2, max |-> Dec(500) ],
    newRate       |-> [ min |-> 1, max |-> 30 ],
    refinanceCost |-> [ min |-> 0, max |-> Dec(500) ],
    newTenure     |-> [ min |-> 12, max |-> 360 ] ]

\* The result memo of Home; it does not look at the validation.
homeResult(s) ==
  << CASE s.scenario = "reduceEMI" ->
            [ fn                |-> "calculatePrepaymentScenario1B",
              originalPrincipal |-> Dec(s.principal),
              annualRate        |-> Dec(s.interest),
              originalTenure    |-> s.tenureMonths,
              monthsPaid        |-> safeMonthsPaid(s),
              prepaymentAmount  |-> Max(0, s.prepay) ]
       [] s.scenario = "monthlyExtra" ->
            [ fn                  |-> "calculateScenario2",
              originalPrincipal   |-> Dec(s.principal),
              annualRate          |-> Dec(s.interest),
              originalTenure      |-> s.tenureMonths,
              monthsPaid          |-> safeMonthsPaid(s),
              monthlyExtraPayment |-> Max(0, s.monthlyExtra) ]
       [] s.scenario = "refinance" ->
            [ fn                |-> "calculateScenario3",
              originalPrincipal |-> Dec(s.principal),
              annualRate        |-> Dec(s.interest),
              originalTenure    |-> s.tenureMonths,
              monthsPaid        |-> safeMonthsPaid(s),
              prepaymentAmount  |-> Max(0, s.prepay),
              newRate           |-> Dec(s.newRate),
              refinanceCost     |-> Max(0, s.refinanceCost),
              newTenure         |->
                Max(HomeRules.newTenure.min,
                    Min(s.newTenure, HomeRules.newTenure.max)) ]
       [] OTHER ->
            [ fn                |-> "calculatePrepaymentScenario",
              originalPrincipal |-> Dec(s.principal),
              annualRate        |-> Dec(s.interest),
              originalTenure    |-> s.tenureMonths,
              monthsPaid        |-> safeMonthsPaid(s),
              prepaymentAmount  |-> Max(0, s.prepay) ] >>

\* result.outstandingPrincipal of Home: every scenario function reports the
\* outstanding principal of the loan it is called with.
homeOutstandingPrincipal(s) ==
  ToNumber(calculateOutstandingPrincipal(Dec(s.principal), Dec(s.interest),
                                         s.tenureMonths, safeMonthsPaid(s)))

\* canCalculateOutstanding of the prepayment field of Home.
canCalculateOutstanding(s) ==
  /\ s.principal >= HomeRules.principal.min
  /\ s.principal <= HomeRules.principal.max
  /\ s.interest >= HomeRules.interestRate.min
  /\ s.interest <= HomeRules.interestRate.max
  /\ s.tenureMonths >= HomeRules.tenureMonths.min
  /\ s.tenureMonths <= HomeRules.tenureMonths.max
  /\ s.monthsPaid >= 0
  /\ s.monthsPaid < s.tenureMonths
  /\ homeOutstandingPrincipal(s) > 0

\* The pages and the links of the header that lead to them.
Routes == {"/", "/lump-sum", "/monthly-extra"}

\* The pages that take the loan through the LoanInputs component.
LoanInputsRoutes == {"/lump-sum", "/monthly-extra"}

\* The engine call of a render of the page at a route.
pageResult(r, s) ==
  CASE r = "/lump-sum"      -> lumpSumResult(s)
    [] r = "/monthly-extra" -> monthlyExtraResult(s)
    [] OTHER                -> homeResult(s)

\* Values typed into the fields: below, at, inside and above the ranges.
PagePrincipals == {40, 50, 400, 100001}

PageInterests == {0, 9, 12, 31}

PageTenures == {0, 6, 12, 13, 361}

PageMonthsPaid == {-1, 0, 3, 12}

PagePrepayments == {0, 40, 500}

\* The state the page is constructed with, an in-range loan part-way
\* through its tenure with a prepayment of a tenth of the principal.
LumpSumInitialState ==
  [ principal        |-> 400,
    interest         |-> 9,
    tenureMonths     |-> 12,
    monthsPaid       |-> 3,
    prepaymentAmount |-> Dec(40),
    scenario         |-> "1A" ]

LumpSumInit ==
  /\ route = "/lump-sum"
  /\ page = LumpSumInitialState
  /\ engineCall = lumpSumResult(page)
  /\ api = <<>>
  /\ inp = <<>>
  /\ res3 = <<>>
  /\ res1A = <<>>
  /\ res1B = <<>>
  /\ res2 = <<>>
  /\ resNewTenure = <<>>
  /\ calls = <<>>

SetPrincipal ==
  /\ route \in LoanInputsRoutes
  /\ \E num \in PagePrincipals : page' = [page EXCEPT !.principal = num]
  /\ engineCall' = pageResult(route, page')
  /\ UNCHANGED <<engineVars, route, api>>

SetInterest ==
  /\ route \in LoanInputsRoutes
  /\ \E value \in PageInterests : page' = [page EXCEPT !.interest = value]
  /\ engineCall' = pageResult(route, page')
  /\ UNCHANGED <<engineVars, route, api>>

SetTenureMonths ==
  /\ route \in LoanInputsRoutes
  /\ \E value \in PageTenures : page' = [page EXCEPT !.tenureMonths = value]
  /\ engineCall' = pageResult(route, page')
  /\ UNCHANGED <<engineVars, route, api>>

SetMonthsPaid ==
  /\ route \in LoanInputsRoutes
  /\ \E value \in PageMonthsPaid : page' = [page EXCEPT !.monthsPaid = value]
  /\ engineCall' = pageResult(route, page')
  /\ UNCHANGED <<engineVars, route, api>>

\* onChange of the prepayment field limits the typed value by the
\* outstanding principal of the render the handler belongs to.
SetPrepaymentAmount ==
  /\ route = "/lump-sum"
  /\ \E val \in PagePrepayments :
       page' = [page EXCEPT !.prepaymentAmount =
                  Max(0, Min(Dec(val), lumpSumOutstandingPrincipal(page)))]
  /\ engineCall' = pageResult(route, page')
  /\ UNCHANGED <<engineVars, route, api>>

SetScenario ==
  /\ route = "/lump-sum"
  /\ \E value \in {"1A", "1B"} : page' = [page EXCEPT !.scenario = value]
  /\ engineCall' = pageResult(route, page')
  /\ UNCHANGED <<engineVars, route, api>>

LumpSumNext ==
  \/ SetPrincipal
  \/ SetInterest
  \/ SetTenureMonths
  \/ SetMonthsPaid
  \/ SetPrepaymentAmount
  \/ SetScenario

LumpSumSpec == LumpSumInit /\ [][LumpSumNext]_vars

(***************************************************************************)
(* The three calculator pages together.  A link of the header leaves the   *)
(* page and mounts the page it leads to, in its initial state.             *)
(***************************************************************************)
PageMonthlyExtras == {0, 40, 501}

MonthlyExtraInitialState ==
  [ principal    |-> 400,
    interest     |-> 9,
    tenureMonths |-> 12,
    monthsPaid   |-> 3,
    monthlyExtra |-> Dec(1) ]

\* onChange of the monthly extra field keeps the typed value in its range.
SetMonthlyExtra ==
  /\ route = "/monthly-extra"
  /\ \E val \in PageMonthlyExtras :
       page' = [page EXCEPT !.monthlyExtra =
                  Max(MonthlyExtraRules.monthlyExtra.min,
                      Min(Dec(val), MonthlyExtraRules.monthlyExtra.max))]
  /\ engineCall' = pageResult(route, page')
  /\ UNCHANGED <<engineVars, route, api>>

HomePrincipals == {0, 400}

HomeInterests == {0, 31}

HomeTenures == {0, 13}

HomeMonthsPaid == {-1, 13}

HomeNewRates == {0}

HomeRefinanceCosts == {501}

HomePrepayments == {0, 40}

HomeMonthlyExtras == {501}

HomeNewTenures == {0}

HomeScenarios == {"reduceTenure", "reduceEMI", "monthlyExtra", "refinance"}

\* newTenure starts at 180, the value the Refinance button takes for "not
\* set yet".
HomeInitialState ==
  [ principal     |-> 400,
    interest      |-> 9,
    tenureMonths  |-> 12,
    monthsPaid    |-> 3,
    prepay        |-> Dec(40),
    monthlyExtra  |-> Dec(1),
    newRate       |-> 8,
    refinanceCost |-> Dec(40),
    newTenure     |-> 180,
    scenario      |-> "reduceTenure" ]

HomeSetPrincipal ==
  /\ route = "/"
  /\ \E val \in HomePrincipals :
       page' = [page EXCEPT !.principal = Max(0, Min(val, HomeRules.principal.max))]
  /\ engineCall' = pageResult(route, page')
  /\ UNCHANGED <<engineVars, route, api>>

HomeSetInterest ==
  /\ route = "/"
  /\ \E val \in HomeInterests :
       page' = [page EXCEPT !.interest = Max(0, Min(val, HomeRules.interestRate.max))]
  /\ engineCall' = pageResult(route, page')
  /\ UNCHANGED <<engineVars, route, api>>

\* The tenure typed, kept below the upper end of its range only.
clampedTenure_noMin(val) == Min(val, HomeRules.tenureMonths.max)

\* The tenure typed, kept in its range.
clampedTenure(val) ==
  Max(HomeRules.tenureMonths.min, Min(val, HomeRules.tenureMonths.max))

\* onChange of the tenure field also lowers a monthsPaid that the new
\* tenure does not leave room for.
HomeSetTenureMonths ==
  /\ route = "/"
  /\ \E val \in HomeTenures :
       page' = [page EXCEPT !.tenureMonths = clampedTenure(val),
                            !.monthsPaid =
                              IF page.monthsPaid >= clampedTenure(val)
                              THEN Max(0, clampedTenure(val) - 1) ELSE @]
  /\ engineCall' = pageResult(route, page')
  /\ UNCHANGED <<engineVars, route, api>>

HomeSetMonthsPaid ==
  /\ route = "/"
  /\ \E val \in HomeMonthsPaid :
       page' = [page EXCEPT !.monthsPaid =
                  Max(0, Min(val, IF page.tenureMonths >= HomeRules.tenureMonths.min
                                  THEN page.tenureMonths - 1
                                  ELSE page.tenureMonths))]
  /\ engineCall' = pageResult(route, page')
  /\ UNCHANGED <<engineVars, route, api>>

\* The largest prepayment the field takes: one currency unit (a thousandth
\* of the page's unit) below the outstanding principal, or no limit while
\* the loan fields do not allow to compute it.
homeMaxAllowedPrepay(s, val) ==
  IF canCalculateOutstanding(s)
  THEN Max(0, homeOutstandingPrincipal(s) - (Dec(1) \div 1000))
  ELSE val

HomeSetPrepay ==
  /\ route = "/"
  /\ page.scenario # "monthlyExtra"
  /\ \E val \in HomePrepayments :
       page' = [page EXCEPT !.prepay =
                  Max(0, Min(Dec(val), homeMaxAllowedPrepay(page, Dec(val))))]
  /\ engineCall' = pageResult(route, page')
  /\ UNCHANGED <<engineVars, route, api>>

HomeSetMonthlyExtra ==
  /\ route = "/"
  /\ page.scenario = "monthlyExtra"
  /\ \E val \in HomeMonthlyExtras :
       page' = [page EXCEPT !.monthlyExtra =
                  Max(0, Min(Dec(val), HomeRules.monthlyExtra.max))]
  /\ engineCall' = pageResult(route, page')
  /\ UNCHANGED <<engineVars, route, api>>

HomeSetNewRate ==
  /\ route = "/"
  /\ page.scenario = "refinance"
  /\ \E val \in HomeNewRates :
       page' = [page EXCEPT !.newRate = Max(0, Min(val, HomeRules.newRate.max))]
  /\ engineCall' = pageResult(route, page')
  /\ UNCHANGED <<engineVars, route, api>>

HomeSetRefinanceCost ==
  /\ route = "/"
  /\ page.scenario = "refinance"
  /\ \E val \in HomeRefinanceCosts :
       page' = [page EXCEPT !.refinanceCost =
                  Max(0, Min(Dec(val), HomeRules.refinanceCost.max))]
  /\ engineCall' = pageResult(route, page')
  /\ UNCHANGED <<engineVars, route, api>>

HomeSetNewTenure ==
  /\ route = "/"
  /\ page.scenario = "refinance"
  /\ \E val \in HomeNewTenures :
       page' = [page EXCEPT !.newTenure =
                  Max(HomeRules.newTenure.min, Min(val, HomeRules.newTenure.max))]
  /\ engineCall' = pageResult(route, page')
  /\ UNCHANGED <<engineVars, route, api>>

\* The buttons Reduce Tenure, Reduce EMI and Monthly Extra.
HomeSetScenario ==
  /\ route = "/"
  /\ \E value \in HomeScenarios \ {"refinance"} :
       page' = [page EXCEPT !.scenario = value]
  /\ engineCall' = pageResult(route, page')
  /\ UNCHANGED <<engineVars, route, api>>

\* The button Refinance also sets newTenure to the remaining tenure, kept
\* in the range of newTenure.
HomeSetScenarioRefinance ==
  /\ route = "/"
  /\ page' = [page EXCEPT
                !.scenario = "refinance",
                !.newTenure =
                  IF \/ page.newTenure = 180
                     \/ page.tenureMonths - page.monthsPaid # page.newTenure
                  THEN Max(HomeRules.newTenure.min,
                           Min(page.tenureMonths - page.monthsPaid,
                               HomeRules.newTenure.max))
                  ELSE @]
  /\ engineCall' = pageResult(route, page')
  /\ UNCHANGED <<engineVars, route, api>>

initialState(r) ==
  CASE r = "/lump-sum"      -> LumpSumInitialState
    [] r = "/monthly-extra" -> MonthlyExtraInitialState
    [] OTHER                -> HomeInitialState

Navigate ==
  /\ \E href \in Routes \ {route} :
       /\ route' = href
       /\ page' = initialState(href)
       /\ engineCall' = pageResult(href, page')
  /\ UNCHANGED <<engineVars, api>>

PagesInit ==
  /\ route \in Routes
  /\ page = initialState(route)
  /\ engineCall = pageResult(route, page)
  /\ api = <<>>
  /\ inp = <<>>
  /\ res3 = <<>>
  /\ res1A = <<>>
  /\ res1B = <<>>
  /\ res2 = <<>>
  /\ resNewTenure = <<>>
  /\ calls = <<>>

PagesNext ==
  \/ SetPrincipal
  \/ SetInterest
  \/ SetTenureMonths
  \/ SetMonthsPaid
  \/ SetPrepaymentAmount
  \/ SetScenario
  \/ SetMonthlyExtra
  \/ HomeSetPrincipal
  \/ HomeSetInterest
  \/ HomeSetTenureMonths
  \/ HomeSetMonthsPaid
  \/ HomeSetPrepay
  \/ HomeSetMonthlyExtra
  \/ HomeSetNewRate
  \/ HomeSetRefinanceCost
  \/ HomeSetNewTenure
  \/ HomeSetScenario
  \/ HomeSetScenarioRefinance
  \/ Navigate

PagesSpec == PagesInit /\ [][PagesNext]_vars

(***************************************************************************)
(* The request-forwarding route POST /api/analyze                          *)
(* (src/app/api/analyze/route.ts).  api is one request in progress: pc is  *)
(* the statement the handler is at, thrown the error on its way to a catch *)
(* block, response what the backend answered and sent the responses the    *)
(* handler has returned.  A text is a string; a JSON value is written as   *)
(* its compact text.  An absent field is Undefined.                        *)
(***************************************************************************)
JsonTexts == {"[1,2]", "[1, 2]", "{}", "null"}

OtherTexts == {"", "[1,", "Internal Server Error"}

\* JSON.parse of a text that is JSON: the value, which has no layout.
JSONparse(text) == IF text = "[1, 2]" THEN "[1,2]" ELSE text

\* JSON.stringify of a value.
JSONstringify(value) == value

\* The error JSON.parse, request.json() and response.json() throw.
SyntaxError == [ name |-> "SyntaxError", code |-> Undefined, message |-> "Unexpected end of JSON input" ]

\* What fetch rejects with when no connection to the backend can be made:
\* the error of Node's fetch, and that of a fetch that passes the error of
\* the socket on.
UnreachableErrors ==
  { [ name |-> "TypeError", code |-> Undefined, message |-> "fetch failed" ],
    [ name |-> "FetchError", code |-> "ECONNREFUSED",
      message |-> "connect ECONNREFUSED 127.0.0.1:8000" ] }

\* message.includes('fetch failed') over the messages that occur.
includesFetchFailed(message) == message \in {"fetch failed"}

NodeEnvs == {"development", "production", "test"}

UpstreamStatuses == {200, 201, 304, 400, 404, 422, 500, 503}

\* The statuses a response with a body cannot have.
NullBodyStatuses == {101, 103, 204, 205, 304}

\* response.ok
ok(status) == status >= 200 /\ status <= 299

\* NextResponse.json(body, { status }) of an error payload or of data.
NextResponseJson(status, error, message, hint, data) ==
  [ status |-> status, error |-> error, message |-> message, hint |-> hint,
    data |-> data ]

\* The error NextResponse.json throws for a status that allows no body.
InvalidStatusError == [ name |-> "TypeError", code |-> Undefined, message |-> "Invalid response status code" ]

ApiRequests ==
  [ pc       : {"request.json"},
    request  : JsonTexts \cup OtherTexts,
    nodeEnv  : NodeEnvs,
    backend  : {"up", "down"},
    fetches  : {0},
    response : {<<>>},
    thrown   : {<<>>},
    sent     : {<<>>} ]

ApiInit ==
  /\ api \in ApiRequests
  /\ route = ""
  /\ page = <<>>
  /\ engineCall = <<>>
  /\ inp = <<>>
  /\ res3 = <<>>
  /\ res1A = <<>>
  /\ res1B = <<>>
  /\ res2 = <<>>
  /\ resNewTenure = <<>>
  /\ calls = <<>>

apiFrame == <<engineVars, page, engineCall, route>>

\* const body = await request.json(), and the test of NODE_ENV after it.
RequestJson ==
  /\ api.pc = "request.json"
  /\ api' = IF api.request \in JsonTexts
            THEN [api EXCEPT !.pc = IF api.nodeEnv = "development"
                                    THEN "fetch" ELSE "notImplemented"]
            ELSE [api EXCEPT !.pc = "catch", !.thrown = <<SyntaxError>>]
  /\ UNCHANGED apiFrame

\* The response of the route outside development.
NotImplemented ==
  /\ api.pc = "notImplemented"
  /\ api' = [api EXCEPT
               !.pc = "done",
               !.sent = Append(@, NextResponseJson(
                          501,
                          "Not implemented in Next.js route. Use Python serverless function.",
                          Undefined, Undefined, Undefined))]
  /\ UNCHANGED apiFrame

\* await fetch(API_URL/analyze): rejected while the backend is down,
\* resolved with the status and body the backend chooses otherwise.
Fetch ==
  /\ api.pc = "fetch"
  /\ \/ /\ api.backend = "down"
        /\ \E fetchError \in UnreachableErrors :
             api' = [api EXCEPT !.pc = "fetchCatch", !.fetches = @ + 1,
                                !.thrown = <<fetchError>>]
     \/ /\ api.backend = "up"
        /\ \E status \in UpstreamStatuses, body \in JsonTexts \cup OtherTexts :
             api' = [api EXCEPT
                       !.pc = IF ok(status) THEN "response.json" ELSE "response.text",
                       !.fetches = @ + 1,
                       !.response = << [ status |-> status, body |-> body ] >>]
  /\ UNCHANGED apiFrame

\* if (!response.ok): the error payload with the status of the backend.
BackendError ==
  /\ api.pc = "response.text"
  /\ api' = IF api.response[1].status \in NullBodyStatuses
            THEN [api EXCEPT !.pc = "fetchCatch", !.thrown = <<InvalidStatusError>>]
            ELSE [api EXCEPT
                    !.pc = "done",
                    !.sent = Append(@, NextResponseJson(
                               api.response[1].status,
                               "Backend error",
                               IF api.response[1].body = ""
                               THEN "FastAPI backend returned an error"
                               ELSE api.response[1].body,
                               "Make sure FastAPI is running: cd app/loan_angel_backend && python -m uvicorn main:app --reload --port 8000",
                               Undefined))]
  /\ UNCHANGED apiFrame

\* const data = await response.json(); return NextResponse.json(data).
ResponseJson ==
  /\ api.pc = "response.json"
  /\ api' = IF api.response[1].body \in JsonTexts
            THEN [api EXCEPT
                    !.pc = "done",
                    !.sent = Append(@, NextResponseJson(
                               200, Undefined, Undefined, Undefined,
                               JSONstringify(JSONparse(api.response[1].body))))]
            ELSE [api EXCEPT !.pc = "fetchCatch", !.thrown = <<SyntaxError>>]
  /\ UNCHANGED apiFrame

\* The test of the inner catch block for a backend that is not running,
\* by the code of the error alone.
isBackendNotRunning_codeOnly(fetchError) == fetchError.code = "ECONNREFUSED"

\* The test of the inner catch block for a backend that is not running.
isBackendNotRunning(fetchError) ==
  fetchError.code = "ECONNREFUSED" \/ includesFetchFailed(fetchError.message)

\* catch (fetchError): 503 for a backend that is not running, any other
\* error is thrown on.
FetchCatch ==
  /\ api.pc = "fetchCatch"
  /\ api' = IF isBackendNotRunning(api.thrown[1])
            THEN [api EXCEPT
                    !.pc = "done",
                    !.thrown = <<>>,
                    !.sent = Append(@, NextResponseJson(
                               503,
                               "Backend not available",
                               "FastAPI backend is not running on port 8000",
                               "Start it with: cd app/loan_angel_backend && python -m uvicorn main:app --reload --port 8000",
                               Undefined))]
            ELSE [api EXCEPT !.pc = "catch"]
  /\ UNCHANGED apiFrame

\* catch (error): 500 with the message of the error.
Catch ==
  /\ api.pc = "catch"
  /\ api' = [api EXCEPT
               !.pc = "done",
               !.thrown = <<>>,
               !.sent = Append(@, NextResponseJson(
                          500, "Internal server error",
                          IF api.thrown[1].message = ""
                          THEN "Unknown error occurred"
                          ELSE api.thrown[1].message,
                          Undefined, Undefined))]
  /\ UNCHANGED apiFrame

ApiNext ==
  \/ RequestJson
  \/ NotImplemented
  \/ Fetch
  \/ BackendError
  \/ ResponseJson
  \/ FetchCatch
  \/ Catch

ApiSpec == ApiInit /\ [][ApiNext]_vars

(***************************************************************************)
(* Properties of calculateScenario3.                                       *)
(***************************************************************************)
Called3 == res3 # <<>>

R3 == res3[1]

Called1A == res1A # <<>>

R1A == res1A[1]

OptionNames == {"stay", "A", "B", "C"}

\* The option record of a Scenario 3 result that a bestOption label names.
Named(r, o) ==
  IF o = "stay" THEN r.stay
  ELSE IF o = "A" THEN r.optionA
  ELSE IF o = "B" THEN r.optionB
  ELSE r.optionC

\* The labels in the order stay, A, B, C.
Rank(o) == IF o = "stay" THEN 0 ELSE IF o = "A" THEN 1 ELSE IF o = "B" THEN 2 ELSE 3

CompareAllCase == Called3 /\ inp.prepayment > 0 /\ inp.newRate < inp.rate

\* C1: with prepayment > 0 and newRate < currentRate, bestOption names one of
\* stay, A, B, C and no option of the four has a lower totalCost than the named one.
C1_BestIsMinimum ==
  CompareAllCase =>
    /\ R3.bestOption \in OptionNames
    /\ \A o \in OptionNames : Named(R3, R3.bestOption).totalCost <= Named(R3, o).totalCost

\* C1 witness: the compare-all rule picked option C, strictly cheaper than Stay.
C1_Witness ==
  /\ CompareAllCase
  /\ R3.bestOption = "C"
  /\ R3.optionC.totalCost < R3.stay.totalCost

\* C2: with prepayment > 0 and newRate < currentRate, bestOption is the first
\* option, in the order stay, A, B, C, whose totalCost is the lowest.
C2_TieGoesToFirst ==
  CompareAllCase =>
    \A o \in OptionNames :
      Named(R3, o).totalCost = Named(R3, R3.bestOption).totalCost
        => Rank(R3.bestOption) <= Rank(o)

\* C3: with prepayment = 0, bestOption is B when newRate < currentRate and
\* option B costs less than Stay, and is stay otherwise.
C3_NoPrepaymentRule ==
  (Called3 /\ inp.prepayment = 0) =>
    R3.bestOption = (IF inp.newRate < inp.rate /\ R3.optionB.totalCost < R3.stay.totalCost
                     THEN "B" ELSE "stay")

\* C3 witness: no prepayment and B recommended.
C3_Witness ==
  /\ Called3
  /\ inp.prepayment = 0
  /\ R3.bestOption = "B"

\* C4: with prepayment > 0 and newRate >= currentRate, bestOption is A when
\* option A costs less than Stay and is stay otherwise, whatever B and C cost.
C4_RateNotLowerRule ==
  (Called3 /\ inp.prepayment > 0 /\ inp.newRate >= inp.rate) =>
    R3.bestOption = (IF R3.optionA.totalCost < R3.stay.totalCost THEN "A" ELSE "stay")

\* C4 witness: the rule applied while option C was cheaper than both A and Stay.
C4_Witness ==
  /\ Called3
  /\ inp.prepayment > 0
  /\ inp.newRate >= inp.rate
  /\ R3.bestOption = "A"
  /\ R3.optionC.totalCost < R3.optionA.totalCost

\* C5: maxSavings is stay.totalCost minus the totalCost of the option that
\* bestOption names, and is 0 when bestOption is stay.
C5_MaxSavings ==
  Called3 =>
    /\ R3.maxSavings = NumSub(R3.stay.totalCost, Named(R3, R3.bestOption).totalCost)
    /\ R3.bestOption = "stay" => R3.maxSavings = 0

\* C5 witness: an option other than Stay was chosen with positive savings.
C5_Witness ==
  /\ Called3
  /\ R3.bestOption = "A"
  /\ R3.maxSavings > 0

\* C6: with prepayment = 0 or prepayment >= outstanding principal, option A
\* carries Stay's totalCost, totalInterest and tenure, has no benefit and has
\* an explanatory status.
C6_OptionACollapses ==
  (Called3 /\ (inp.prepayment = 0 \/ inp.prepayment >= R3.outstandingPrincipal)) =>
    /\ R3.optionA.totalCost = R3.stay.totalCost
    /\ R3.optionA.totalInterest = R3.stay.totalInterest
    /\ R3.optionA.tenure = R3.stay.tenure
    /\ R3.optionA.hasBenefit = FALSE
    /\ R3.optionA.status \in {"No benefit (same as Stay)", "Invalid prepayment amount"}

\* C6 witness: a prepayment equal to the whole outstanding principal.
C6_Witness ==
  /\ Called3
  /\ inp.prepayment > 0
  /\ inp.prepayment = R3.outstandingPrincipal
  /\ R3.optionA.status = "Invalid prepayment amount"

BenefitB == inp.newRate < inp.rate /\ R3.optionB.totalCost < R3.stay.totalCost

\* C7 as claimed: optionB.hasBenefit is true exactly when newRate < currentRate
\* and option B costs less than Stay, and in every other case option B carries
\* a "no benefit" status string.
C7_NoBenefitStatusAlways ==
  Called3 =>
    /\ R3.optionB.hasBenefit <=> BenefitB
    /\ ~BenefitB => R3.optionB.status = "No benefit (rate not lower)"

\* C7 amended: optionB.hasBenefit is true exactly when newRate < currentRate
\* and option B costs less than Stay; the status "No benefit (rate not lower)"
\* is set exactly when newRate >= currentRate and is undefined otherwise.
C7_BenefitAndStatus ==
  Called3 =>
    /\ R3.optionB.hasBenefit <=> BenefitB
    /\ R3.optionB.status = (IF inp.newRate >= inp.rate
                            THEN "No benefit (rate not lower)" ELSE Undefined)

\* C7 witness: a lower rate whose refinance still costs at least as much as
\* Stay: no benefit, and no status.
C7_Witness ==
  /\ Called3
  /\ inp.newRate < inp.rate
  /\ R3.optionB.totalCost >= R3.stay.totalCost
  /\ R3.optionB.hasBenefit = FALSE
  /\ R3.optionB.status = Undefined

\* C8: with prepayment = 0, option C has option B's totalCost, totalInterest,
\* monthlyPayment and tenure and its status says it is the same as option B.
C8_OptionCSameAsB ==
  (Called3 /\ inp.prepayment = 0) =>
    /\ R3.optionC.totalCost = R3.optionB.totalCost
    /\ R3.optionC.totalInterest = R3.optionB.totalInterest
    /\ R3.optionC.monthlyPayment = R3.optionB.monthlyPayment
    /\ R3.optionC.tenure = R3.optionB.tenure
    /\ R3.optionC.status = "Same as Option B (no prepayment)"

\* C8 witness: no prepayment, and option B differs from Stay in payment and tenure.
C8_Witness ==
  /\ Called3
  /\ inp.prepayment = 0
  /\ R3.optionB.monthlyPayment # R3.stay.monthlyPayment
  /\ R3.optionB.tenure # R3.stay.tenure
  /\ R3.optionC.monthlyPayment = R3.optionB.monthlyPayment

\* C9: with prepayment # 0, when outstanding - prepayment + refinanceCost <= 0
\* or prepayment >= outstanding, option C carries Stay's totalCost,
\* totalInterest and tenure, has no benefit and has status "Invalid scenario".
C9_OptionCInvalid ==
  (/\ Called3
   /\ inp.prepayment # 0
   /\ \/ R3.outstandingPrincipal - inp.prepayment + inp.refinanceCost <= 0
      \/ inp.prepayment >= R3.outstandingPrincipal) =>
    /\ R3.optionC.totalCost = R3.stay.totalCost
    /\ R3.optionC.totalInterest = R3.stay.totalInterest
    /\ R3.optionC.tenure = R3.stay.tenure
    /\ R3.optionC.hasBenefit = FALSE
    /\ R3.optionC.status = "Invalid scenario"

\* C9 witness: a prepayment above the outstanding principal, with a new tenure
\* that differs from the remaining one.
C9_Witness ==
  /\ Called3
  /\ inp.prepayment > R3.outstandingPrincipal
  /\ inp.newTenure # R3.remainingTenure
  /\ R3.optionC.status = "Invalid scenario"

SameCall == Called3 /\ Called1A

PrepayBelowBalance ==
  SameCall /\ inp.prepayment > 0 /\ inp.prepayment < R3.outstandingPrincipal

Called1B == res1B # <<>>

R1B == res1B[1]

Called2 == res2 # <<>>

R2 == res2[1]

CalledNewTenure == resNewTenure # <<>>

\* C11 as claimed: in every result of calculatePrepaymentScenario,
\* totalCostWithoutPrepay - totalCostWithPrepay equals interestSaved exactly.
C11_ConservationExact ==
  Called1A =>
    NumSub(R1A.totalCostWithoutPrepay, R1A.totalCostWithPrepay) = R1A.interestSaved


\* The Decimals the scenario functions compute first from the loan.
LoanEmi == calculateEMI(inp.principal, inp.rate, inp.tenure)

LoanOutstanding ==
  calculateOutstandingPrincipal(inp.principal, inp.rate, inp.tenure, inp.monthsPaid)

LoanMonthlyRate == calculateMonthlyRate(inp.rate)

\* n is a whole, non-negative number of months and is v rounded up (0 when
\* v is negative).
RoundedUp(n, v) ==
  /\ n \in Nat
  /\ Dec(n) >= v
  /\ n = 0 \/ Dec(n - 1) < v

\* The value of the tenure solver in calculatePrepaymentScenario.
SolverValue1A ==
  ToNumber(calculateNewTenure(R1A.outstandingPrincipal, inp.rate, R1A.emi,
                              inp.prepayment))

\* calculateScenario2 reaches the tenure formula.
Scenario2SolverRuns ==
  /\ inp.monthlyExtra > 0
  /\ (LoanEmi + inp.monthlyExtra) - DMul(LoanOutstanding, LoanMonthlyRate) > 0

SolverValue2 ==
  ToNumber(tenureFormula(LoanOutstanding, LoanMonthlyRate, LoanEmi + inp.monthlyExtra))

\* Option A of calculateScenario3 reaches the tenure formula.
OptionASolverRuns ==
  /\ inp.prepayment > 0
  /\ inp.prepayment < ToNumber(LoanOutstanding)
  /\ LoanEmi - DMul(LoanOutstanding - inp.prepayment, LoanMonthlyRate) > 0

SolverValueA ==
  ToNumber(tenureFormula(LoanOutstanding - inp.prepayment, LoanMonthlyRate, LoanEmi))

SolverBalanceAfter == inp.outstandingPrincipal - inp.prepayment

\* The payment of that call less one month's interest on the balance.
SolverDenominatorInner ==
  inp.emi - DMul(SolverBalanceAfter, calculateMonthlyRate(inp.rate))

\* C13: calculateNewTenure returns 0 whenever outstandingPrincipal -
\* prepaymentAmount <= 0, and returns 0 whenever emi - (outstandingPrincipal -
\* prepaymentAmount) * monthlyRate <= 0.
C13_SolverInvalidCases ==
  CalledNewTenure =>
    /\ SolverBalanceAfter <= 0 => resNewTenure[1] = 0
    /\ SolverDenominatorInner <= 0 => resNewTenure[1] = 0

\* C13 witness: a positive balance whose interest the payment does not cover.
C13_Witness ==
  /\ CalledNewTenure
  /\ SolverBalanceAfter > 0
  /\ SolverDenominatorInner <= 0
  /\ resNewTenure[1] = 0


\* C14 as claimed: in calculatePrepaymentScenario1B, whenever prepaymentAmount
\* is at least the outstanding principal (in particular equal to it), newEmi
\* is 0, interestSaved is 0 and totalCostWithPrepay is the prepayment.
C14_PaidOffSentinel ==
  Called1B /\ inp.prepayment >= R1B.outstandingPrincipal =>
    /\ R1B.newEmi = 0
    /\ R1B.interestSaved = 0
    /\ R1B.totalCostWithPrepay = inp.prepayment


\* C15: in calculateScenario2, whenever monthlyExtraPayment <= 0 nothing
\* changes: newTenure = remainingTenure, tenureReduced = 0, interestSaved = 0,
\* totalExtraPaid = 0, effectiveMonthlyPayment = emi and totalCostWithExtra =
\* totalCostWithoutExtra.
C15_NoExtraNoChange ==
  Called2 /\ inp.monthlyExtra <= 0 =>
    /\ R2.newTenure = R2.remainingTenure
    /\ R2.remainingTenure = inp.tenure - inp.monthsPaid
    /\ R2.tenureReduced = 0
    /\ R2.interestSaved = 0
    /\ R2.totalExtraPaid = 0
    /\ R2.effectiveMonthlyPayment = R2.emi
    /\ R2.totalCostWithExtra = R2.totalCostWithoutExtra

\* C15 witness: a negative extra on a running loan, reported as no change.
C15_Witness ==
  /\ Called2
  /\ inp.monthlyExtra < 0
  /\ inp.principal > 0
  /\ R2.newTenure = R2.remainingTenure
  /\ R2.remainingTenure > 0
  /\ R2.totalCostWithExtra > 0


\* calculateScenario2 is given a positive extra with which the payment does
\* not cover one month's interest on the outstanding principal.
Scenario2PaymentInsufficient ==
  /\ inp.monthlyExtra > 0
  /\ (LoanEmi + inp.monthlyExtra) - DMul(LoanOutstanding, LoanMonthlyRate) <= 0

\* C16: in calculateScenario2 with monthlyExtraPayment > 0, whenever
\* (emi + extra) - outstanding * monthlyRate <= 0 the result is the sentinel
\* newTenure = 0, tenureReduced = remainingTenure, totalCostWithExtra = 0,
\* interestSaved = 0 and totalExtraPaid = 0.
C16_InsufficientSentinel ==
  Called2 /\ Scenario2PaymentInsufficient =>
    /\ R2.newTenure = 0
    /\ R2.tenureReduced = R2.remainingTenure
    /\ R2.remainingTenure = inp.tenure - inp.monthsPaid
    /\ R2.totalCostWithExtra = 0
    /\ R2.interestSaved = 0
    /\ R2.totalExtraPaid = 0

\* C16 witness: the sentinel returned for a loan with months still to run.
C16_Witness ==
  /\ Called2
  /\ Scenario2PaymentInsufficient
  /\ R2.newTenure = 0
  /\ R2.tenureReduced > 0
  /\ R2.totalCostWithExtra = 0
  /\ R2.totalCostWithoutExtra # 0


\* C17: for every result of calculateScenario2 with monthlyExtraPayment >= 0,
\* totalExtraPaid is the number that holds the exact product
\* monthlyExtraPayment * newTenure, and in the normal outcome interestSaved
\* equals emi * remainingTenure - (emi + extra) * newTenure.
C17_ExtraPaidAndSaved ==
  Called2 /\ inp.monthlyExtra >= 0 =>
    /\ R2.totalExtraPaid = ToNumber(inp.monthlyExtra * R2.newTenure)
    /\ Scenario2SolverRuns =>
         R2.interestSaved =
           ToNumber(DMul(LoanEmi, Dec(R2.remainingTenure))
                      - DMul(LoanEmi + inp.monthlyExtra, Dec(R2.newTenure)))

\* C17 witness: an extra that shortens the loan and is paid in every
\* remaining month.
C17_Witness ==
  /\ Called2
  /\ Scenario2SolverRuns
  /\ R2.newTenure > 0
  /\ R2.newTenure < R2.remainingTenure
  /\ R2.totalExtraPaid = inp.monthlyExtra * R2.newTenure
  /\ R2.totalExtraPaid > 0


\* The prepayment is at least the outstanding principal the engine reports.
PrepaymentCoversBalance == inp.prepayment >= ToNumber(LoanOutstanding)

\* calculatePrepaymentScenario, degenerate inputs: a complete result with a
\* new tenure of zero.
DegenerateShape1A ==
  Called1A =>
    /\ DOMAIN R1A = { "emi", "outstandingPrincipal", "remainingTenure",
                      "newTenureAfterPrepay", "interestSaved", "tenureReduced",
                      "totalCostWithoutPrepay", "totalCostWithPrepay" }
    /\ PrepaymentCoversBalance => R1A.newTenureAfterPrepay = 0
    /\ R1A.emi - DMul(R1A.outstandingPrincipal - inp.prepayment, LoanMonthlyRate) <= 0
         => R1A.newTenureAfterPrepay = 0

\* calculatePrepaymentScenario1B, degenerate inputs: a complete result with a
\* new EMI of zero and no interest saved.
DegenerateShape1B ==
  Called1B =>
    /\ DOMAIN R1B = { "emi", "newEmi", "emiReduction", "outstandingPrincipal",
                      "remainingTenure", "interestSaved", "totalCostWithoutPrepay",
                      "totalCostWithPrepay", "monthlyBenefit" }
    /\ PrepaymentCoversBalance => R1B.newEmi = 0 /\ R1B.interestSaved = 0

\* calculateScenario2, degenerate inputs: a complete result with a new tenure
\* and a total cost of zero.
DegenerateShape2 ==
  Called2 =>
    /\ DOMAIN R2 = { "emi", "effectiveMonthlyPayment", "outstandingPrincipal",
                     "remainingTenure", "newTenure", "tenureReduced", "interestSaved",
                     "totalExtraPaid", "totalCostWithoutExtra", "totalCostWithExtra" }
    /\ Scenario2PaymentInsufficient => R2.newTenure = 0 /\ R2.totalCostWithExtra = 0

\* calculateScenario3, degenerate inputs: a complete result whose options A
\* and C carry a status and no benefit.
DegenerateShape3 ==
  Called3 =>
    /\ DOMAIN R3 = { "emi", "outstandingPrincipal", "remainingTenure", "stay",
                     "optionA", "optionB", "optionC", "bestOption", "maxSavings" }
    /\ PrepaymentCoversBalance /\ inp.prepayment # 0 =>
         /\ R3.optionA.status = "Invalid prepayment amount"
         /\ ~R3.optionA.hasBenefit
         /\ R3.optionC.status = "Invalid scenario"
         /\ ~R3.optionC.hasBenefit
    /\ inp.prepayment # 0
         /\ (LoanOutstanding - inp.prepayment) + inp.refinanceCost <= 0 =>
         R3.optionC.status = "Invalid scenario" /\ ~R3.optionC.hasBenefit
    /\ inp.prepayment > 0 /\ ~PrepaymentCoversBalance
         /\ LoanEmi - DMul(LoanOutstanding - inp.prepayment, LoanMonthlyRate) <= 0 =>
         /\ R3.optionA.status = "Invalid scenario"
         /\ R3.optionA.tenure = 0
         /\ ~R3.optionA.hasBenefit

\* C18 as claimed: for degenerate inputs (prepayment >= outstanding balance,
\* payment insufficient to cover interest, refinance principal <= 0) each of
\* the four scenario functions returns a complete result whose shape (zero
\* tenure, zero savings or a status string) sets it apart from a valid one.
C18_DegenerateShapes ==
  /\ DegenerateShape1A
  /\ DegenerateShape1B
  /\ DegenerateShape2
  /\ DegenerateShape3


PageCalledEngine == engineCall # <<>>

PageCall == engineCall[1]

\* The loan fields of a call are inside the documented bounds.
LoanFieldsInBounds(c) ==
  /\ c.originalPrincipal > 0
  /\ c.annualRate > 0
  /\ c.annualRate <= Dec(30)
  /\ c.originalTenure >= 1
  /\ c.monthsPaid >= 0
  /\ c.monthsPaid < c.originalTenure

\* The prepayment of a call is at least 0 and below the balance that is
\* outstanding on the loan of the call.
PrepaymentInBounds(c) ==
  /\ c.prepaymentAmount >= 0
  /\ c.prepaymentAmount < ToNumber(calculateOutstandingPrincipal(
                                     c.originalPrincipal, c.annualRate,
                                     c.originalTenure, c.monthsPaid))

PageLoanFieldsInBounds == PageCalledEngine => LoanFieldsInBounds(PageCall)

PageRejectsInvalidLoan == ~isValid(page) => ~PageCalledEngine

PagePrepaymentAboveBalance ==
  /\ PageCalledEngine
  /\ PageCall.prepaymentAmount > PageCall.result.outstandingPrincipal

PagePrepaymentEqualsBalance ==
  /\ PageCalledEngine
  /\ PageCall.prepaymentAmount = PageCall.result.outstandingPrincipal

\* C20: after any sequence of edits on a calculator page, the engine is
\* called only with a principal, rate, tenure and monthsPaid inside the
\* documented bounds and with a prepayment that is at least 0 and strictly
\* below the outstanding balance of the loan.
C20_EngineInputsInBounds ==
  PageCalledEngine => LoanFieldsInBounds(PageCall) /\ PrepaymentInBounds(PageCall)

\* The monthsPaid of a call lies inside the tenure of the call.
MonthsPaidInRange(c) == c.monthsPaid >= 0 /\ c.monthsPaid < c.originalTenure

ApiDone == api.pc = "done"

ApiResponse == api.sent[1]

MalformedRequest == api.request \notin JsonTexts

\* A response that is an error payload: an error text and a message.
StructuredError(r) == r.error # Undefined /\ r.message # Undefined

\* C22: a POST to /api/analyze whose body is not valid JSON is answered
\* with status 400 and a structured error payload, not with 500.
C22_MalformedIs400 ==
  ApiDone /\ MalformedRequest =>
    /\ ApiResponse.status = 400
    /\ StructuredError(ApiResponse)

\* What the route does answer to a malformed request.
MalformedIs500 ==
  ApiDone /\ MalformedRequest =>
    /\ ApiResponse.status = 500
    /\ ApiResponse.error = "Internal server error"
    /\ api.fetches = 0

\* The handler, in development, has called fetch and no connection to the
\* backend could be made.
BackendUnreachable ==
  /\ api.nodeEnv = "development"
  /\ api.backend = "down"
  /\ api.fetches > 0

\* C23: in development mode, whenever the backend cannot be reached, the
\* route responds with status 503 and a payload that carries a hint; it
\* never responds with 500.
C23_UnreachableIs503 ==
  ApiDone /\ BackendUnreachable =>
    /\ ApiResponse.status = 503
    /\ ApiResponse.hint # Undefined
    /\ ApiResponse.error = "Backend not available"

\* C23 witness: in development the handler called fetch once, no connection
\* could be made, and the request was answered with 503.
C23_Witness ==
  /\ ApiDone
  /\ BackendUnreachable
  /\ ApiResponse.status = 503
  /\ api.fetches = 1

\* The backend has answered the forwarded request.
BackendAnswered == api.response # <<>>

BackendStatus == api.response[1].status

\* At most one response per request, and exactly one once the handler has
\* returned.
OneResponse ==
  /\ Len(api.sent) <= 1
  /\ ApiDone <=> Len(api.sent) = 1

\* Non-OK answers of the backend are passed on with their status.
NonOkPassedOn ==
  ApiDone /\ BackendAnswered /\ ~ok(BackendStatus) =>
    /\ ApiResponse.status = BackendStatus
    /\ StructuredError(ApiResponse)

\* An OK answer with a JSON body is passed on as status 200 with the same
\* JSON value.
OkPassedOn ==
  ApiDone /\ BackendAnswered /\ ok(BackendStatus)
          /\ api.response[1].body \in JsonTexts =>
    /\ ApiResponse.status = 200
    /\ ApiResponse.error = Undefined
    /\ ApiResponse.data = JSONparse(api.response[1].body)

\* C30: in development mode, a non-OK answer of the backend is returned as
\* an error payload with the same status, an OK answer as the JSON body of
\* the backend with status 200, and every request gets exactly one response.
C30_BackendAnswerPassedOn == NonOkPassedOn /\ OkPassedOn /\ OneResponse

\* A non-OK answer whose status allows a body.
NonOkPassedOnWithBody ==
  ApiDone /\ BackendAnswered /\ ~ok(BackendStatus)
          /\ BackendStatus \notin NullBodyStatuses =>
    /\ ApiResponse.status = BackendStatus
    /\ StructuredError(ApiResponse)

\* A status without a body ends as 500.
NullBodyStatusIs500 ==
  ApiDone /\ BackendAnswered /\ BackendStatus \in NullBodyStatuses =>
    ApiResponse.status = 500

(***************************************************************************)
(* Properties of the leaf formulas.                                        *)
(***************************************************************************)
CalledOutstanding == calls # <<>> /\ calls[1].fn = "calculateOutstandingPrincipal"

OutstandingResult == calls[1].result

\* With every month paid nothing is outstanding.
OutstandingAtEndIsZero ==
  CalledOutstanding /\ calls[1].monthsPaid = inp.tenure => OutstandingResult = 0

\* C24 as stated: calculateOutstandingPrincipal(P, rate, N, 0) equals P and
\* calculateOutstandingPrincipal(P, rate, N, N) equals 0.
C24_OutstandingAtEnds ==
  /\ CalledOutstanding /\ calls[1].monthsPaid = 0 => OutstandingResult = inp.principal
  /\ OutstandingAtEndIsZero

\* C24 amended: with no month paid the outstanding principal, converted
\* with toNumber(), equals P; with every month paid it is 0.
C24_OutstandingAtEndsAsNumber ==
  /\ CalledOutstanding /\ calls[1].monthsPaid = 0 =>
       ToNumber(OutstandingResult) = ToNumber(inp.principal)
  /\ OutstandingAtEndIsZero

\* C24 witness: with no month paid the Decimal differs from the principal
\* and its number is the principal.
C24_Witness ==
  /\ CalledOutstanding
  /\ calls[1].monthsPaid = 0
  /\ OutstandingResult # inp.principal
  /\ ToNumber(OutstandingResult) = inp.principal

\* C25: feeding calculateEMI(B, rate, N) into calculateNewTenure(B, rate,
\* emi, 0) and rounding up gives exactly N.
C25_TenureRoundTrip ==
  resNewTenure # <<>> => ceilMonths(resNewTenure[1]) = inp.tenure

\* The solver's months are never fewer than N.
TenureRoundTripAtLeast ==
  resNewTenure # <<>> => ceilMonths(resNewTenure[1]) >= inp.tenure

TenureRoundTripOneMore ==
  resNewTenure # <<>> /\ ceilMonths(resNewTenure[1]) = inp.tenure + 1

(***************************************************************************)
(* The recommendation of calculateScenario3 against the flags of the       *)
(* option it names.                                                        *)
(***************************************************************************)
Best3 == Named(R3, R3.bestOption)

InvalidStatuses == {"Invalid scenario", "Invalid prepayment amount"}

\* C26: with prepayment >= 0, also at or above the outstanding principal,
\* bestOption never names an option whose status is "Invalid scenario" or
\* "Invalid prepayment amount".
C26_BestIsNotInvalid ==
  (Called3 /\ inp.prepayment >= 0) => Best3.status \notin InvalidStatuses

\* With a prepayment below the outstanding principal no option is invalid,
\* so the recommended one is not.
BestIsNotInvalidBelowBalance ==
  (Called3 /\ inp.prepayment >= 0 /\ ToNumber(inp.prepayment) < R3.outstandingPrincipal)
    => Best3.status \notin InvalidStatuses

\* A prepayment at or above the outstanding principal with the invalid
\* option C recommended.
BestIsInvalidOptionC ==
  /\ Called3
  /\ ToNumber(inp.prepayment) >= R3.outstandingPrincipal
  /\ R3.bestOption = "C"
  /\ R3.optionC.status = "Invalid scenario"

C28_BestHasBenefit ==
  (Called3 /\ R3.bestOption \in {"A", "B", "C"}) => Best3.hasBenefit

\* Outside the compare-all rule the recommended option does carry the flag.
BestHasBenefitOutsideCompareAll ==
  (Called3 /\ ~CompareAllCase /\ R3.bestOption \in {"A", "B", "C"}) => Best3.hasBenefit

\* With a prepayment below the outstanding principal the recommended option
\* carries the flag.
BestHasBenefitBelowBalance ==
  (Called3 /\ ToNumber(inp.prepayment) < R3.outstandingPrincipal
           /\ R3.bestOption \in {"A", "B", "C"}) => Best3.hasBenefit

\* The compare-all rule recommended an option at the cost of Stay that has
\* no benefit.
BestWithoutBenefit ==
  /\ CompareAllCase
  /\ R3.bestOption \in {"A", "B", "C"}
  /\ ~Best3.hasBenefit
  /\ R3.maxSavings = 0

(***************************************************************************)
(* The new tenure against the remaining tenure.                            *)
(***************************************************************************)
ValidLoan ==
  /\ inp.principal > 0
  /\ inp.rate > 0
  /\ inp.monthsPaid >= 0
  /\ inp.monthsPaid < inp.tenure

\* calculatePrepaymentScenario: the new tenure is at most remainingTenure.
TenureNotLonger1A ==
  (Called1A /\ ValidLoan /\ inp.prepayment >= 0) =>
    /\ R1A.newTenureAfterPrepay <= R1A.remainingTenure
    /\ R1A.tenureReduced >= 0

\* calculateScenario2: the new tenure is at most remainingTenure.
TenureNotLonger2 ==
  (Called2 /\ ValidLoan /\ inp.monthlyExtra >= 0) =>
    /\ R2.newTenure <= R2.remainingTenure
    /\ R2.tenureReduced >= 0

\* C29: for a valid loan (principal > 0, rate > 0, 0 <= monthsPaid < tenure),
\* with a prepayment >= 0 in calculatePrepaymentScenario or a monthly extra
\* >= 0 in calculateScenario2, the new tenure never exceeds remainingTenure
\* and tenureReduced is never negative.
C29_TenureNeverLonger == TenureNotLonger1A /\ TenureNotLonger2

\* calculatePrepaymentScenario never adds more than one month.
TenureAtMostOneMonthLonger1A ==
  (Called1A /\ ValidLoan /\ inp.prepayment >= 0) => R1A.tenureReduced >= -1

\* A valid loan without prepayment whose new tenure is one month longer than
\* the remaining tenure.
TenureOneMonthLonger1A ==
  /\ Called1A
  /\ ValidLoan
  /\ inp.prepayment = 0
  /\ R1A.tenureReduced = -1

==========================================================================
